---- MODULE Spec2Model ----
(***************************************************************************)
(* FlashForgeDash: the printer client (backend/printer_client.py) and the  *)
(* serving layer's use of it (backend/main.py).                            *)
(*                                                                         *)
(* Threads run the client's methods one statement group at a time.  Each   *)
(* thread has a call stack pc[t] of positions (the head is the running     *)
(* frame); threading.Lock is modelled as it is, non-reentrant.  Device     *)
(* responses are texts, and the parsers work on their characters.          *)
(***************************************************************************)
EXTENDS Integers, Sequences, FiniteSets, TLC

\* ------------------------------------------------------------------ bounds

\* Request threads of the serving layer.
NumCallers == 1
\* Polling worker threads that can exist at once (threading.Thread objects).
NumWorkers == 1
\* Observer callbacks registered at once.
MaxCallbacks == 2

\* ------------------------------------------------------------ text helpers

None == "<None>"

\* Body of the value of e: e is evaluated once, as an assignment to a local does
Bind(e, Body(_)) == CHOOSE r \in {Body(v) : v \in {e}} : TRUE

\* min without its second argument: no upper limit
MinUnbounded(a, b) == a

Min(a, b) == IF a < b THEN a ELSE b

CharAt(s, i) == SubSeq(s, i, i)

\* x in s, for str
Contains(s, sub) ==
    Bind(s, LAMBDA v :
        \E i \in 1..(Len(v) - Len(sub) + 1) : SubSeq(v, i, i + Len(sub) - 1) = sub)

RECURSIVE FindFrom(_, _, _)
\* the first place at or after i where sub occurs in s, 0 when there is none
FindFrom(s, sub, i) ==
    IF i > Len(s) - Len(sub) + 1 THEN 0
    ELSE IF SubSeq(s, i, i + Len(sub) - 1) = sub THEN i
    ELSE FindFrom(s, sub, i + 1)

\* s.find(sub) + 1: the first place sub occurs in s, 0 when it does not
Find(s, sub) == Bind(s, LAMBDA v : FindFrom(v, sub, 1))

LowerChar(c) ==
    Bind(c, LAMBDA d :
        CASE d = "A" -> "a" [] d = "B" -> "b" [] d = "C" -> "c" [] d = "D" -> "d"
          [] d = "E" -> "e" [] d = "F" -> "f" [] d = "G" -> "g" [] d = "H" -> "h"
          [] d = "I" -> "i" [] d = "J" -> "j" [] d = "K" -> "k" [] d = "L" -> "l"
          [] d = "M" -> "m" [] d = "N" -> "n" [] d = "O" -> "o" [] d = "P" -> "p"
          [] d = "Q" -> "q" [] d = "R" -> "r" [] d = "S" -> "s" [] d = "T" -> "t"
          [] d = "U" -> "u" [] d = "V" -> "v" [] d = "W" -> "w" [] d = "X" -> "x"
          [] d = "Y" -> "y" [] d = "Z" -> "z" [] OTHER -> d)

RECURSIVE LowerFrom(_, _)
\* the characters of s from place i on, in lower case
LowerFrom(s, i) ==
    IF i > Len(s) THEN "" ELSE LowerChar(CharAt(s, i)) \o LowerFrom(s, i + 1)

\* str.lower()
Lower(s) == Bind(s, LAMBDA v : LowerFrom(v, 1))

IsSpace(c) == c \in {" ", "\t", "\n", "\r"}

RECURSIVE FirstNonSpace(_, _)
\* the first place at or after i of s that holds no white space (Len(s) + 1 when
\* there is none)
FirstNonSpace(s, i) ==
    IF i <= Len(s) /\ IsSpace(CharAt(s, i)) THEN FirstNonSpace(s, i + 1) ELSE i

RECURSIVE LastNonSpace(_, _)
\* the last place at or before j of s that holds no white space (0 when there is
\* none)
LastNonSpace(s, j) ==
    IF j >= 1 /\ IsSpace(CharAt(s, j)) THEN LastNonSpace(s, j - 1) ELSE j

\* str.strip()
Strip(s) ==
    Bind(s, LAMBDA v :
    Bind(FirstNonSpace(v, 1), LAMBDA a :
    Bind(LastNonSpace(v, Len(v)), LAMBDA b :
        IF a > b THEN "" ELSE SubSeq(v, a, b))))

RECURSIVE SplitFrom(_, _, _)
\* the pieces of s from place i on, between the occurrences of sep
SplitFrom(s, sep, i) ==
    Bind(FindFrom(s, sep, i), LAMBDA j :
        IF j = 0 THEN <<SubSeq(s, i, Len(s))>>
        ELSE <<SubSeq(s, i, j - 1)>> \o SplitFrom(s, sep, j + Len(sep)))

\* s.split(sep): the pieces of s between the occurrences of sep
Split(s, sep) == Bind(s, LAMBDA v : SplitFrom(v, sep, 1))

RECURSIVE TokenEnd(_, _)
\* the last place of the run of non-space characters of s that starts at i
TokenEnd(s, i) ==
    IF i < Len(s) /\ ~IsSpace(CharAt(s, i + 1)) THEN TokenEnd(s, i + 1) ELSE i

RECURSIVE WordsFrom(_, _)
\* the runs of non-space characters of s from place i on
WordsFrom(s, i) ==
    Bind(FirstNonSpace(s, i), LAMBDA a :
        IF a > Len(s) THEN <<>>
        ELSE Bind(TokenEnd(s, a), LAMBDA e :
                 <<SubSeq(s, a, e)>> \o WordsFrom(s, e + 1)))

\* s.split(): the runs of non-space characters of s
Words(s) == Bind(s, LAMBDA v : WordsFrom(v, 1))

IsDigit(c) == c \in {"0", "1", "2", "3", "4", "5", "6", "7", "8", "9"}

DigitVal(c) ==
    Bind(c, LAMBDA d :
        CASE d = "0" -> 0 [] d = "1" -> 1 [] d = "2" -> 2 [] d = "3" -> 3
          [] d = "4" -> 4 [] d = "5" -> 5 [] d = "6" -> 6 [] d = "7" -> 7
          [] d = "8" -> 8 [] d = "9" -> 9)

RECURSIVE DigitsValUpTo(_, _)
\* the number the first n characters of s, all digits, write
DigitsValUpTo(s, n) ==
    IF n = 0 THEN 0 ELSE 10 * DigitsValUpTo(s, n - 1) + DigitVal(CharAt(s, n))

DigitsVal(s) == Bind(s, LAMBDA v : DigitsValUpTo(v, Len(v)))

AllDigits(s) == Len(s) > 0 /\ \A i \in 1..Len(s) : IsDigit(CharAt(s, i))

\* int(s) and float(s) on the numerals the device sends: surrounding white space
\* is ignored, then an optional sign and decimal digits; anything else raises
\* ValueError (ok = FALSE).  Temperatures are whole degrees.
ParseNumber(s) ==
    Bind(Strip(s), LAMBDA t :
    Bind(Len(t) > 0 /\ CharAt(t, 1) \in {"-", "+"}, LAMBDA signed :
    Bind(IF signed THEN SubSeq(t, 2, Len(t)) ELSE t, LAMBDA d :
        IF AllDigits(d)
        THEN [ok |-> TRUE,
              val |-> IF signed /\ CharAt(t, 1) = "-" THEN 0 - DigitsVal(d) ELSE DigitsVal(d)]
        ELSE [ok |-> FALSE, val |-> 0])))

\* ------------------------------------------------------------ PrinterState

PrinterStatus ==
    {"IDLE", "PREHEATING", "HEATING", "COOLING", "READY", "PRINTING", "PAUSED",
     "COMPLETE", "ERROR", "DISCONNECTED"}

\* PrinterState() as constructed
PrinterState ==
    [connected |-> FALSE, status |-> "DISCONNECTED",
     nozzle_temp |-> 0, nozzle_target |-> 0, bed_temp |-> 0, bed_target |-> 0,
     progress |-> 0, led_on |-> TRUE]

Abs(x) == IF x < 0 THEN 0 - x ELSE x

TEMP_TOLERANCE == 3
HEATING_THRESHOLD == 10
TARGET_SET_ABOVE == 30
COOLING_ABOVE == 40

\* The decision list of _determine_thermal_status with one of its parts changed:
\* without the progress test, with the at-target test on diff instead of
\* abs(diff), or with the HEATING test ahead of the PREHEATING test.
ThermalStatusVariant(st, progress_test, absolute, preheating_first) ==
    LET nozzle_diff == st.nozzle_target - st.nozzle_temp
        bed_diff == st.bed_target - st.bed_temp
        nozzle_target_set == st.nozzle_target > TARGET_SET_ABOVE
        bed_target_set == st.bed_target > TARGET_SET_ABOVE
        nozzle_heating == nozzle_target_set /\ nozzle_diff > TEMP_TOLERANCE
        bed_heating == bed_target_set /\ bed_diff > TEMP_TOLERANCE
        nozzle_preheating == nozzle_target_set /\ nozzle_diff > HEATING_THRESHOLD
        bed_preheating == bed_target_set /\ bed_diff > HEATING_THRESHOLD
        nozzle_cooling == /\ st.nozzle_temp > st.nozzle_target + TEMP_TOLERANCE
                          /\ st.nozzle_temp > COOLING_ABOVE
        bed_cooling == /\ st.bed_temp > st.bed_target + TEMP_TOLERANCE
                       /\ st.bed_temp > COOLING_ABOVE
        nozzle_ready ==
            /\ nozzle_target_set
            /\ (IF absolute THEN Abs(nozzle_diff) ELSE nozzle_diff) <= TEMP_TOLERANCE
        bed_ready ==
            /\ bed_target_set
            /\ (IF absolute THEN Abs(bed_diff) ELSE bed_diff) <= TEMP_TOLERANCE
    IN  IF progress_test /\ st.progress > 0 /\ st.progress < 100 THEN "PRINTING"
        ELSE IF preheating_first /\ nozzle_preheating /\ bed_preheating THEN "PREHEATING"
        ELSE IF nozzle_heating \/ bed_heating THEN "HEATING"
        ELSE IF nozzle_preheating /\ bed_preheating THEN "PREHEATING"
        ELSE IF /\ (nozzle_ready \/ ~nozzle_target_set)
                /\ (bed_ready \/ ~bed_target_set)
                /\ (nozzle_target_set \/ bed_target_set) THEN "READY"
        ELSE IF nozzle_cooling \/ bed_cooling THEN "COOLING"
        ELSE "IDLE"

DetermineThermalStatusNoAbs(st) == ThermalStatusVariant(st, TRUE, FALSE, TRUE)
DetermineThermalStatusHeatingFirst(st) == ThermalStatusVariant(st, TRUE, TRUE, FALSE)
DetermineThermalStatusNoProgress(st) == ThermalStatusVariant(st, FALSE, TRUE, TRUE)

\* _determine_thermal_status on the state st
DetermineThermalStatus(st) ==
    LET nozzle_diff == st.nozzle_target - st.nozzle_temp
        bed_diff == st.bed_target - st.bed_temp
        nozzle_target_set == st.nozzle_target > TARGET_SET_ABOVE
        bed_target_set == st.bed_target > TARGET_SET_ABOVE
        nozzle_heating == nozzle_target_set /\ nozzle_diff > TEMP_TOLERANCE
        bed_heating == bed_target_set /\ bed_diff > TEMP_TOLERANCE
        nozzle_preheating == nozzle_target_set /\ nozzle_diff > HEATING_THRESHOLD
        bed_preheating == bed_target_set /\ bed_diff > HEATING_THRESHOLD
        nozzle_cooling == /\ st.nozzle_temp > st.nozzle_target + TEMP_TOLERANCE
                          /\ st.nozzle_temp > COOLING_ABOVE
        bed_cooling == /\ st.bed_temp > st.bed_target + TEMP_TOLERANCE
                       /\ st.bed_temp > COOLING_ABOVE
        nozzle_ready == nozzle_target_set /\ Abs(nozzle_diff) <= TEMP_TOLERANCE
        bed_ready == bed_target_set /\ Abs(bed_diff) <= TEMP_TOLERANCE
    IN  IF st.progress > 0 /\ st.progress < 100 THEN "PRINTING"
        ELSE IF nozzle_preheating /\ bed_preheating THEN "PREHEATING"
        ELSE IF nozzle_heating \/ bed_heating THEN "HEATING"
        ELSE IF /\ (nozzle_ready \/ ~nozzle_target_set)
                /\ (bed_ready \/ ~bed_target_set)
                /\ (nozzle_target_set \/ bed_target_set) THEN "READY"
        ELSE IF nozzle_cooling \/ bed_cooling THEN "COOLING"
        ELSE "IDLE"

\* ----------------------------------------------------------------- parsers

\* One heater's "<cur>/<tgt>" fragment, as the two assignments of
\* _parse_temperatures make them: raised = TRUE when the statement group raised
\* ValueError or IndexError (the first assignment may already have been made).
ParseHeater(st, response, tag, cur_field, tgt_field) ==
    IF ~Contains(response, tag) THEN [st |-> st, raised |-> FALSE]
    ELSE Bind(Words(Split(response, tag)[2]), LAMBDA words :
         IF Len(words) = 0 THEN [st |-> st, raised |-> TRUE]
         ELSE Bind(Split(words[1], "/"), LAMBDA halves :
              IF ~Contains(words[1], "/") THEN [st |-> st, raised |-> FALSE]
              ELSE IF Len(halves) # 2 THEN [st |-> st, raised |-> TRUE]
              ELSE Bind(ParseNumber(halves[1]), LAMBDA cur :
                   Bind(ParseNumber(halves[2]), LAMBDA tgt :
                   IF ~cur.ok THEN [st |-> st, raised |-> TRUE]
                   ELSE IF ~tgt.ok
                   THEN [st |-> [st EXCEPT ![cur_field] = cur.val], raised |-> TRUE]
                   ELSE [st |-> [st EXCEPT ![cur_field] = cur.val,
                                           ![tgt_field] = tgt.val],
                         raised |-> FALSE]))))

\* _parse_temperatures reading the nozzle fragment only
ParseTemperaturesNozzleOnly(st, response) ==
    ParseHeater(st, response, "T0:", "nozzle_temp", "nozzle_target").st

\* _parse_temperatures(response): the nozzle fragment, then the bed fragment unless
\* the nozzle one raised
ParseTemperatures(st, response) ==
    Bind(ParseHeater(st, response, "T0:", "nozzle_temp", "nozzle_target"), LAMBDA n :
        IF n.raised THEN n.st
        ELSE ParseHeater(n.st, response, "B:", "bed_temp", "bed_target").st)

\* _parse_status with the progress test ahead of the keywords
ParseStatusProgressFirst(st, response) ==
    Bind(Lower(response), LAMBDA response_lower :
        IF st.progress > 0 /\ st.progress < 100 THEN [st EXCEPT !.status = "PRINTING"]
        ELSE IF Contains(response_lower, "printing") THEN [st EXCEPT !.status = "PRINTING"]
        ELSE IF Contains(response_lower, "paused") THEN [st EXCEPT !.status = "PAUSED"]
        ELSE IF Contains(response_lower, "complete") \/ Contains(response_lower, "finished")
        THEN [st EXCEPT !.status = "COMPLETE"]
        ELSE IF Contains(response_lower, "error") THEN [st EXCEPT !.status = "ERROR"]
        ELSE IF st.connected THEN [st EXCEPT !.status = DetermineThermalStatus(st)]
        ELSE st)

\* _parse_status looking for the keywords in the response as it came
ParseStatusCaseSensitive(st, response) ==
    IF Contains(response, "printing") THEN [st EXCEPT !.status = "PRINTING"]
    ELSE IF Contains(response, "paused") THEN [st EXCEPT !.status = "PAUSED"]
    ELSE IF Contains(response, "complete") \/ Contains(response, "finished")
    THEN [st EXCEPT !.status = "COMPLETE"]
    ELSE IF Contains(response, "error") THEN [st EXCEPT !.status = "ERROR"]
    ELSE IF st.connected THEN [st EXCEPT !.status = DetermineThermalStatus(st)]
    ELSE st

\* _parse_status(response)
ParseStatus(st, response) ==
    Bind(Lower(response), LAMBDA response_lower :
        IF Contains(response_lower, "printing") THEN [st EXCEPT !.status = "PRINTING"]
        ELSE IF Contains(response_lower, "paused") THEN [st EXCEPT !.status = "PAUSED"]
        ELSE IF Contains(response_lower, "complete") \/ Contains(response_lower, "finished")
        THEN [st EXCEPT !.status = "COMPLETE"]
        ELSE IF Contains(response_lower, "error") THEN [st EXCEPT !.status = "ERROR"]
        ELSE IF st.connected THEN [st EXCEPT !.status = DetermineThermalStatus(st)]
        ELSE st)

\* The pairs <<current, total>>, among the byte counts of this model's device
\* (total 3 or 100, current up to 200), whose double-precision product
\* (current / total) * 100 falls just below the whole percentage it stands for
\* (29 / 100 * 100 is 28.999999999999996).
DoubleShortfall ==
    {<<29, 100>>, <<57, 100>>, <<58, 100>>,
     <<113, 100>>, <<114, 100>>, <<115, 100>>, <<116, 100>>}

\* the percentage as round() would give it: the nearest whole number
PercentRounded(current, total) == (200 * current + total) \div (2 * total)

\* int((current / total) * 100): the quotient and the product are taken in
\* double precision and the product is truncated toward zero.
PercentOf(current, total) ==
    LET q == (Abs(current) * 100) \div total
        p == IF <<Abs(current), total>> \in DoubleShortfall THEN q - 1 ELSE q
    IN  IF current < 0 THEN 0 - p ELSE p

\* _parse_progress resetting on a "not printing" response whatever the status
ParseProgressResetsAlways(st, response) ==
    IF Contains(response, "SD printing byte") \/ Contains(response, "SD printing")
    THEN IF ~Contains(response, "byte") THEN st
         ELSE Bind(Split(Strip(Split(response, "byte")[2]), "/"), LAMBDA parts :
              IF Len(parts) # 2 THEN st
              ELSE Bind(ParseNumber(parts[1]), LAMBDA current :
                   Bind(Words(parts[2]), LAMBDA tail :
                   IF ~current.ok \/ Len(tail) = 0 THEN st
                   ELSE Bind(ParseNumber(tail[1]), LAMBDA total :
                        IF total.ok /\ total.val > 0
                        THEN [st EXCEPT !.progress = PercentOf(current.val, total.val)]
                        ELSE st))))
    ELSE IF Contains(Lower(response), "not") /\ Contains(Lower(response), "printing")
    THEN [st EXCEPT !.progress = 0]
    ELSE st

\* _parse_progress(response)
ParseProgress(st, response) ==
    IF Contains(response, "SD printing byte") \/ Contains(response, "SD printing")
    THEN IF ~Contains(response, "byte") THEN st
         ELSE Bind(Split(Strip(Split(response, "byte")[2]), "/"), LAMBDA parts :
              IF Len(parts) # 2 THEN st
              ELSE Bind(ParseNumber(parts[1]), LAMBDA current :
                   Bind(Words(parts[2]), LAMBDA tail :
                   IF ~current.ok \/ Len(tail) = 0 THEN st
                   ELSE Bind(ParseNumber(tail[1]), LAMBDA total :
                        IF total.ok /\ total.val > 0
                        THEN [st EXCEPT !.progress = PercentOf(current.val, total.val)]
                        ELSE st))))
    ELSE IF Contains(Lower(response), "not") /\ Contains(Lower(response), "printing")
    THEN IF st.status \notin {"PRINTING", "PAUSED"} THEN [st EXCEPT !.progress = 0] ELSE st
    ELSE st

\* ------------------------------------------------------------------ device

\* What the printer may answer to a command: the text _send_command's read loop
\* accumulates before it stops on "ok\r\n", on "Error" or on a read timeout
\* ("" when nothing arrived in time, or the peer closed).
HandshakeReplies ==
    {"Control Success.\r\nok\r\n", "Control Success.\r\nOK\r\n", "Control failed.\r\n", ""}
TempReplies == {"T0:150/200 B:20/60\r\nok\r\n", ""}
StatusReplies ==
    {"MachineStatus: READY\r\nok\r\n", "MachineStatus: PAUSED\r\nok\r\n", ""}
ProgressReplies ==
    {"SD printing byte 45/100\r\nok\r\n", "Not SD printing\r\nok\r\n", ""}
CommandReplies == {"Received.\r\nok\r\n", ""}
\* What the operations of one command are answered with: the acknowledgment in
\* either case, an error (alone, with the "ok" that ends the handling of the
\* line in the same chunk, or with a text that holds the letters "ok"), or
\* nothing before the read timeout.
ControlReplies ==
    {"Received.\r\nok\r\n", "Received.\r\nOK\r\n", "Error: unknown command\r\n",
     "Error: file not found\r\nok\r\n", "Error: invalid token\r\n", ""}
ControlPrefixes ==
    {"~M25", "~M106", "~M107", "~M18", "~G28", "~M146", "~M104", "~M140", "~M30"}
StartsWith(s, p) == Len(s) >= Len(p) /\ SubSeq(s, 1, Len(p)) = p

DeviceReplies(command) ==
    CASE command = "~M601 S1" -> HandshakeReplies
      [] \E p \in ControlPrefixes : StartsWith(command, p) -> ControlReplies
      [] command = "~M105" -> TempReplies
      [] command = "~M119" -> StatusReplies
      [] command = "~M27" -> ProgressReplies
      [] OTHER -> CommandReplies

\* The single-command control operations control_printer dispatches to.
ControlCommands == {"~M112"}
\* The G-code files a request uploads, and the name it gives them.
FileContents == {"; home\nG28\n\n G1 X5 \n"}
FileName == "a.gcode"

\* ------------------------------------------------------------------ state

Callers == 1..NumCallers
Workers == (NumCallers + 1)..(NumCallers + NumWorkers)
Threads == Callers \cup Workers
NoThread == 0

\* A reference to the client's own PrinterState object (self.state), as opposed
\* to a copy of its fields.
LiveRef == [kind |-> "ref"]
CopyOf(st) == [kind |-> "copy", val |-> st]
NoObject == [kind |-> "none"]
\* No poll cycle parsed, no request.
NoCall == [parser |-> "none"]
NoRequest == [op |-> "none"]
\* a connection with nothing under way
NoWire == [pending |-> <<>>, inbox |-> <<>>, read_from |-> {}, heard |-> 0]

\* UserStore._load without a users file
EmptyStore == [approved |-> <<>>, pending |-> <<>>, denied |-> <<>>]

VARIABLES
    state,        \* self.state: the PrinterState object's fields
    sock,         \* self.socket: None, "new" (created, not connected) or "open"
    lock,         \* self._lock: the thread holding it, NoThread when free
    running,      \* self._running
    poll_thread,  \* self._poll_thread: a worker, NoThread when None
    callbacks,    \* len(self._status_callbacks)
    pc,           \* per thread, the stack of positions; <<>> for a thread not running
    cmd,          \* per thread, the command of its running _send_command
    resp,         \* per thread, the value its last _send_command returned
    arg,          \* per thread, the request being served
    idx,          \* per thread, upload_file's place in the file's lines
    ret,          \* per thread, the value its last finished call returned
    held,         \* the object get_state() last returned to a request
    delivered,    \* the object the observers were last called with
    data,         \* user_store._data: the approved, pending and denied lists
    sessions,     \* session_store._sessions: the sessions by their ids
    wire,         \* the connection seen from the device: the reply chunks it has
                  \* still to send, those waiting in the socket's receive
                  \* buffer, the commands whose replies the running
                  \* _send_command has read bytes of, and how many commands
                  \* the device has heard
    sent,         \* per thread, the byte strings its running call has handed to
                  \* sendall, in order
    invoked,      \* per worker, the observers called so far in its running poll
                  \* cycle, in order, and whether each raised
    reconnects,   \* per thread, connect() calls made by _handle_connection_error
                  \* in the running poll cycle
    last          \* the texts last parsed by a poll cycle taken on its own, and the
                  \* states between the three parsers (NoCall until there is one)

vars == <<state, sock, lock, running, poll_thread, callbacks, pc, cmd, resp, arg, idx,
          ret, held, delivered, wire, data, sessions, sent, invoked, reconnects, last>>

\* What a reference or a copy shows to its holder now.
Deref(h) == IF h.kind = "ref" THEN state ELSE h.val

At(t, l) == Len(pc[t]) > 0 /\ Head(pc[t]) = l
Goto(t, l) == pc' = [pc EXCEPT ![t] = <<l>> \o Tail(pc[t])]
Call(t, entry, back) == pc' = [pc EXCEPT ![t] = <<entry, back>> \o Tail(pc[t])]
Return(t) == pc' = [pc EXCEPT ![t] = Tail(pc[t])]

\* Python's truth value of an Optional[str]
Truthy(r) == r # None /\ r # ""
\* response and "ok" in response
AckedCaseSensitive(r) == Truthy(r) /\ Contains(r, "ok")

\* response and "ok" in response.lower()
Acked(r) == Truthy(r) /\ Contains(Lower(r), "ok")

\* a lock that lets a second thread in
LockAcquireNoWait(t) == lock' = t

\* with self._lock: entry blocks until the lock is free (threading.Lock is not
\* reentrant: it blocks its own holder too)
LockAcquire(t) == lock = NoThread /\ lock' = t
\* with self._lock: exit
LockRelease(t) == lock' = NoThread

Init ==
    /\ state = PrinterState
    /\ sock = None
    /\ lock = NoThread
    /\ running = FALSE
    /\ poll_thread = NoThread
    /\ callbacks = 0
    /\ pc = [t \in Threads |-> IF t \in Callers THEN <<"idle">> ELSE <<>>]
    /\ cmd = [t \in Threads |-> None]
    /\ resp = [t \in Threads |-> None]
    /\ arg = [t \in Threads |-> NoRequest]
    /\ idx = [t \in Threads |-> 0]
    /\ ret = [t \in Threads |-> IF t \in Callers THEN None ELSE NoObject]
    /\ held = NoObject
    /\ delivered = NoObject
    /\ wire = NoWire
    /\ data = EmptyStore
    /\ sessions = {}
    /\ sent = [t \in Threads |-> <<>>]
    /\ invoked = [t \in Threads |-> <<>>]
    /\ reconnects = [t \in Threads |-> 0]
    /\ last = NoCall

\* response = self._send_command(command) up to its sendall, on socket s; the
\* caller goes on at back when it returns
CallSend(t, s, command, back) ==
    IF s = None
    THEN /\ resp' = [resp EXCEPT ![t] = None]
         /\ Goto(t, back)
         /\ UNCHANGED <<cmd, sent>>
    ELSE \* full_command = f"{command}\r\n"; self.socket.sendall(full_command)
         /\ sent' = [sent EXCEPT ![t] = Append(@, command \o "\r\n")]
         /\ \/ /\ s = "open"
               /\ cmd' = [cmd EXCEPT ![t] = command]
               /\ resp' = [resp EXCEPT ![t] = None]
               /\ Call(t, "send_command", back)
            \* sendall raised socket.error
            \/ /\ resp' = [resp EXCEPT ![t] = None]
               /\ Goto(t, back)
               /\ UNCHANGED cmd

\* _send_command(command) from its read loop on: the loop ended with the text r,
\* or recv raised socket.error
SendCommand(t) ==
    /\ At(t, "send_command")
    /\ \E r \in DeviceReplies(cmd[t]) \cup {None} : resp' = [resp EXCEPT ![t] = r]
    /\ cmd' = [cmd EXCEPT ![t] = None]
    /\ Return(t)
    /\ UNCHANGED <<state, sock, lock, running, poll_thread, callbacks, arg, idx, ret,
                   held, delivered, wire, data, sessions, sent, invoked, reconnects, last>>

\* _close_socket leaving the status as it was
CloseSocketStatusKept(st) == st

\* self.state.status = PrinterStatus.DISCONNECTED
CloseSocketStatus(st) == [st EXCEPT !.status = "DISCONNECTED"]

\* _close_socket()
CloseSocket(t) ==
    /\ UNCHANGED <<running, poll_thread, callbacks, cmd, resp, arg, idx, ret, held,
                   delivered, wire, data, sessions, sent, invoked, reconnects, last>>
    /\ CASE At(t, "close_socket") ->
              /\ LockAcquire(t)
              /\ sock' = None
              /\ state' = [state EXCEPT !.connected = FALSE]
              /\ Goto(t, "cs_status")
         [] At(t, "cs_status") ->
              /\ state' = CloseSocketStatus(state)
              /\ LockRelease(t) /\ Return(t) /\ UNCHANGED sock
         [] OTHER -> FALSE

\* connect()
Connect(t) ==
    /\ UNCHANGED <<running, poll_thread, callbacks, arg, idx, held, delivered, wire, data, sessions, invoked,
                   reconnects, last>>
    /\ CASE At(t, "connect") ->
              /\ LockAcquire(t)
              /\ \/ /\ sock' = "open"
                    /\ CallSend(t, "open", "~M601 S1", "connect_handshake")
                 \* socket.connect raised: the new socket object stays in self.socket
                 \/ /\ sock' = "new"
                    /\ Call(t, "close_socket", "connect_failed")
                    /\ UNCHANGED <<cmd, resp, sent>>
              /\ UNCHANGED <<state, ret>>
         [] At(t, "connect_handshake") ->
              IF Acked(resp[t])
              THEN /\ state' = [state EXCEPT !.connected = TRUE]
                   /\ Goto(t, "connect_status")
                   /\ UNCHANGED <<sock, lock, cmd, resp, sent, ret>>
              ELSE /\ Call(t, "close_socket", "connect_failed")
                   /\ UNCHANGED <<state, sock, lock, cmd, resp, sent, ret>>
         [] At(t, "connect_status") ->
              /\ state' = [state EXCEPT !.status = "IDLE"]
              /\ LockRelease(t)
              /\ ret' = [ret EXCEPT ![t] = "True"]
              /\ resp' = [resp EXCEPT ![t] = None]
              /\ Return(t)
              /\ UNCHANGED <<sock, cmd>>
              /\ sent' = [sent EXCEPT ![t] = <<>>]
         [] At(t, "connect_failed") ->
              /\ LockRelease(t)
              /\ ret' = [ret EXCEPT ![t] = "False"]
              /\ resp' = [resp EXCEPT ![t] = None]
              /\ Return(t)
              /\ UNCHANGED <<state, sock, cmd>>
              /\ sent' = [sent EXCEPT ![t] = <<>>]
         [] OTHER -> FALSE

\* _handle_connection_error()
HandleConnectionError(t) ==
    /\ UNCHANGED <<state, sock, lock, running, poll_thread, callbacks, cmd, resp, arg,
                   idx, ret, held, delivered, wire, data, sessions, sent, invoked, last>>
    /\ CASE At(t, "handle_connection_error") ->
              Call(t, "close_socket", "hce_reconnect") /\ UNCHANGED reconnects
         [] At(t, "hce_reconnect") ->
              \* time.sleep(1), then self.connect()
              /\ reconnects' = [reconnects EXCEPT ![t] = @ + 1]
              /\ Call(t, "connect", "hce_done")
         [] At(t, "hce_done") -> Return(t) /\ UNCHANGED reconnects
         [] OTHER -> FALSE

\* return self.state
PollStatusResult == LiveRef

\* poll_status that queries the device whatever the connected flag says
PollsDeviceAlways(st) == TRUE

\* if not self.state.connected: return self.state
PollsDevice(st) == st.connected

\* poll_status()
PollStatus(t) ==
    /\ UNCHANGED <<sock, running, poll_thread, callbacks, arg, idx, held, delivered, wire, data, sessions, invoked,
                   reconnects, last>>
    /\ CASE At(t, "poll_status") ->
              /\ LockAcquire(t)
              /\ IF ~PollsDevice(state)
                 THEN Goto(t, "poll_return") /\ UNCHANGED <<cmd, resp, sent>>
                 ELSE CallSend(t, sock, "~M105", "poll_temperatures")
              /\ UNCHANGED <<state, ret>>
         [] At(t, "poll_temperatures") ->
              IF Truthy(resp[t])
              THEN /\ state' = ParseTemperatures(state, resp[t])
                   /\ CallSend(t, sock, "~M119", "poll_state")
                   /\ UNCHANGED <<lock, ret>>
              ELSE /\ Call(t, "handle_connection_error", "poll_return")
                   /\ UNCHANGED <<state, lock, cmd, resp, sent, ret>>
         [] At(t, "poll_state") ->
              IF Truthy(resp[t])
              THEN /\ state' = ParseStatus(state, resp[t])
                   /\ CallSend(t, sock, "~M27", "poll_progress")
                   /\ UNCHANGED <<lock, ret>>
              ELSE /\ Call(t, "handle_connection_error", "poll_return")
                   /\ UNCHANGED <<state, lock, cmd, resp, sent, ret>>
         [] At(t, "poll_progress") ->
              /\ state' = IF Truthy(resp[t]) THEN ParseProgress(state, resp[t]) ELSE state
              /\ Goto(t, "poll_return")
              /\ UNCHANGED <<lock, cmd, resp, sent, ret>>
         [] At(t, "poll_return") ->
              /\ LockRelease(t) /\ Return(t)
              /\ ret' = [ret EXCEPT ![t] = PollStatusResult]
              /\ resp' = [resp EXCEPT ![t] = None]
              /\ UNCHANGED <<state, cmd>>
              /\ sent' = [sent EXCEPT ![t] = <<>>]
         [] OTHER -> FALSE

\* _poll_loop(), the body of a polling worker.  raise_aborts is false in the
\* code: the exception of an observer is caught inside the for loop.
PollLoopVariant(t, raise_aborts) ==
    /\ UNCHANGED <<state, sock, lock, running, poll_thread, callbacks, cmd, resp, arg,
                   held, last>>
    /\ CASE At(t, "poll_loop") ->
              \* after time.sleep(POLL_INTERVAL), or at the thread's start
              IF running
              THEN /\ Call(t, "poll_status", "loop_callbacks")
                   /\ reconnects' = [reconnects EXCEPT ![t] = 0]
                   /\ UNCHANGED <<idx, ret, delivered, wire, data, sessions, sent, invoked>>
              ELSE \* the thread ends
                   /\ pc' = [pc EXCEPT ![t] = <<>>]
                   /\ reconnects' = [reconnects EXCEPT ![t] = 0]
                   /\ UNCHANGED <<idx, ret, delivered, wire, data, sessions, sent, invoked>>
         [] At(t, "loop_callbacks") ->
              \* for callback in self._status_callbacks:
              IF idx[t] < callbacks
              THEN \* callback(state) returns or raises
                   \E raised \in BOOLEAN :
                      /\ delivered' = ret[t]
                      /\ invoked' = [invoked EXCEPT ![t] =
                                       Append(@, [observer |-> idx[t] + 1,
                                                  raised |-> raised])]
                      /\ idx' = [idx EXCEPT ![t] =
                                   IF raised /\ raise_aborts THEN callbacks ELSE @ + 1]
                      /\ UNCHANGED <<pc, ret, wire, data, sessions, sent, reconnects>>
              ELSE \* the for loop is over: time.sleep(POLL_INTERVAL)
                   /\ ret' = [ret EXCEPT ![t] = NoObject]
                   /\ idx' = [idx EXCEPT ![t] = 0]
                   /\ invoked' = [invoked EXCEPT ![t] = <<>>]
                   /\ Goto(t, "poll_loop")
                   /\ UNCHANGED <<delivered, wire, data, sessions, sent, reconnects>>
         [] OTHER -> FALSE

\* _poll_loop() with the observers' exceptions caught by the outer try only
PollLoopRaiseAborts(t) == PollLoopVariant(t, TRUE)

\* _poll_loop()
PollLoop(t) == PollLoopVariant(t, FALSE)

\* the threads start_polling can still create
FreeWorkers == {w \in (DOMAIN pc) \ Callers : pc[w] = <<>>}
\* callers between start_polling's check of _running and its Thread.start()
Starting == {t \in Callers : At(t, "start_polling") \/ At(t, "sp_thread")}

\* start_polling() without its check of _running
StartPollingAlways(t) ==
    /\ UNCHANGED <<state, sock, lock, callbacks, cmd, resp, arg, idx, ret, held,
                   delivered, wire, data, sessions, sent, invoked, reconnects, last>>
    /\ CASE At(t, "start_polling") ->
              running' = TRUE /\ Goto(t, "sp_thread") /\ UNCHANGED poll_thread
         [] At(t, "sp_thread") ->
              /\ FreeWorkers # {}
              /\ LET w == CHOOSE w \in FreeWorkers : \A v \in FreeWorkers : w <= v
                 IN  /\ poll_thread' = w
                     /\ pc' = [pc EXCEPT ![t] = Tail(pc[t]), ![w] = <<"poll_loop">>]
              /\ UNCHANGED running
         [] OTHER -> FALSE

\* start_polling()
StartPolling(t) ==
    /\ UNCHANGED <<state, sock, lock, callbacks, cmd, resp, arg, idx, ret, held,
                   delivered, wire, data, sessions, sent, invoked, reconnects, last>>
    /\ CASE At(t, "start_polling") ->
              IF running
              THEN Return(t) /\ UNCHANGED <<running, poll_thread>>
              ELSE running' = TRUE /\ Goto(t, "sp_thread") /\ UNCHANGED poll_thread
         [] At(t, "sp_thread") ->
              /\ FreeWorkers # {}
              /\ LET w == CHOOSE w \in FreeWorkers : \A v \in FreeWorkers : w <= v
                 IN  /\ poll_thread' = w
                     /\ pc' = [pc EXCEPT ![t] = Tail(pc[t]), ![w] = <<"poll_loop">>]
              /\ UNCHANGED running
         [] OTHER -> FALSE

\* disconnect()
Disconnect(t) ==
    /\ UNCHANGED <<state, sock, lock, poll_thread, callbacks, cmd, resp, arg, idx, held,
                   delivered, wire, data, sessions, sent, invoked, reconnects, last>>
    /\ CASE At(t, "disconnect") ->
              running' = FALSE /\ Goto(t, "disc_join") /\ UNCHANGED ret
         [] At(t, "disc_join") ->
              \* join(timeout=2.0) returned: the worker ended or the two seconds passed
              Call(t, "close_socket", "disc_done") /\ UNCHANGED <<running, ret>>
         [] At(t, "disc_done") ->
              ret' = [ret EXCEPT ![t] = None] /\ Return(t) /\ UNCHANGED running
         [] OTHER -> FALSE

\* return self.state
GetStateResult == LiveRef

\* get_state()
GetState(t) ==
    /\ At(t, "get_state")
    /\ held' = GetStateResult
    /\ Return(t)
    /\ UNCHANGED <<state, sock, lock, running, poll_thread, callbacks, cmd, resp, arg,
                   idx, ret, delivered, wire, data, sessions, sent, invoked, reconnects, last>>

\* add_status_callback(callback)
AddStatusCallback(t) ==
    /\ At(t, "add_status_callback")
    /\ callbacks' = callbacks + 1
    /\ Return(t)
    /\ UNCHANGED <<state, sock, lock, running, poll_thread, cmd, resp, arg, idx, ret,
                   held, delivered, wire, data, sessions, sent, invoked, reconnects, last>>

\* a control operation that succeeds as soon as any text came back
CommandResultAnyText(r) == IF r # None THEN "True" ELSE "False"

\* return response is not None and "ok" in response.lower()
CommandResult(r) == IF r # None /\ Contains(Lower(r), "ok") THEN "True" ELSE "False"

\* emergency_stop() and the other operations of one command, acknowledged or not
ControlCommand(t) ==
    /\ UNCHANGED <<state, sock, running, poll_thread, callbacks, idx, held, delivered, wire, data, sessions, invoked,
                   reconnects, last>>
    /\ CASE At(t, "control_command") ->
              /\ LockAcquire(t)
              /\ CallSend(t, sock, arg[t].command, "control_done")
              /\ UNCHANGED <<arg, ret>>
         [] At(t, "control_done") ->
              /\ ret' = [ret EXCEPT ![t] = CommandResult(resp[t])]
              /\ resp' = [resp EXCEPT ![t] = None]
              /\ arg' = [arg EXCEPT ![t] = NoRequest]
              /\ LockRelease(t) /\ Return(t)
              /\ UNCHANGED cmd
              /\ sent' = [sent EXCEPT ![t] = <<>>]
         [] OTHER -> FALSE

\* start_print going on to '~M24' whatever the answer to '~M23'
SelectFailedNever(r) == FALSE

\* not select_response or "ok" not in select_response.lower()
SelectFailed(r) == ~Acked(r)

\* start_print(filename)
StartPrint(t) ==
    /\ UNCHANGED <<state, sock, running, poll_thread, callbacks, idx, held, delivered, wire, data, sessions, invoked,
                   reconnects, last>>
    /\ CASE At(t, "start_print") ->
              /\ LockAcquire(t)
              /\ CallSend(t, sock, "~M23 " \o FileName, "print_selected")
              /\ UNCHANGED <<arg, ret>>
         [] At(t, "print_selected") ->
              IF SelectFailed(resp[t])
              THEN /\ ret' = [ret EXCEPT ![t] = "False"]
                   /\ resp' = [resp EXCEPT ![t] = None]
                   /\ arg' = [arg EXCEPT ![t] = NoRequest]
                   /\ LockRelease(t) /\ Return(t)
                   /\ UNCHANGED cmd
                   /\ sent' = [sent EXCEPT ![t] = <<>>]
              ELSE /\ CallSend(t, sock, "~M24", "print_started")
                   /\ UNCHANGED <<lock, arg, ret>>
         [] At(t, "print_started") ->
              /\ ret' = [ret EXCEPT ![t] = IF Acked(resp[t]) THEN "True" ELSE "False"]
              /\ resp' = [resp EXCEPT ![t] = None]
              /\ arg' = [arg EXCEPT ![t] = NoRequest]
              /\ LockRelease(t) /\ Return(t)
              /\ UNCHANGED cmd
              /\ sent' = [sent EXCEPT ![t] = <<>>]
         [] OTHER -> FALSE

\* content.decode().split('\n')
FileLines(content) == Split(content, "\n")

\* upload_file passing over the empty lines only
SkipsLineEmptyOnly(line) == line = ""

\* not (line and not line.startswith(';')), of a stripped line
SkipsLine(line) == line = "" \/ CharAt(line, 1) = ";"

\* upload_file(filename, content)
UploadFile(t) ==
    /\ UNCHANGED <<state, sock, running, poll_thread, callbacks, held, delivered, wire, data, sessions, invoked,
                   reconnects, last>>
    /\ CASE At(t, "upload_file") ->
              /\ LockAcquire(t)
              /\ CallSend(t, sock, "~M28 " \o FileName, "upload_begun")
              /\ UNCHANGED <<arg, idx, ret>>
         [] At(t, "upload_begun") ->
              IF ~Acked(resp[t])
              THEN /\ ret' = [ret EXCEPT ![t] = "False"]
                   /\ resp' = [resp EXCEPT ![t] = None]
                   /\ arg' = [arg EXCEPT ![t] = NoRequest]
                   /\ LockRelease(t) /\ Return(t)
                   /\ UNCHANGED <<cmd, idx>>
                   /\ sent' = [sent EXCEPT ![t] = <<>>]
              ELSE /\ idx' = [idx EXCEPT ![t] = 1]
                   /\ Goto(t, "upload_lines")
                   /\ UNCHANGED <<lock, cmd, resp, sent, arg, ret>>
         [] At(t, "upload_lines") ->
              LET lines == FileLines(arg[t].content)
              IN  IF idx[t] > Len(lines)
                  THEN /\ CallSend(t, sock, "~M29", "upload_ended")
                       /\ UNCHANGED <<lock, arg, idx, ret>>
                  ELSE LET line == Strip(lines[idx[t]])
                       IN  /\ idx' = [idx EXCEPT ![t] = @ + 1]
                           /\ IF ~SkipsLine(line)
                              THEN CallSend(t, sock, line, "upload_lines")
                              ELSE UNCHANGED <<pc, cmd, resp, sent>>
                           /\ UNCHANGED <<lock, arg, ret>>
         [] At(t, "upload_ended") ->
              /\ ret' = [ret EXCEPT ![t] = IF Acked(resp[t]) THEN "True" ELSE "False"]
              /\ resp' = [resp EXCEPT ![t] = None]
              /\ arg' = [arg EXCEPT ![t] = NoRequest]
              /\ idx' = [idx EXCEPT ![t] = 0]
              /\ LockRelease(t) /\ Return(t)
              /\ UNCHANGED cmd
              /\ sent' = [sent EXCEPT ![t] = <<>>]
         [] OTHER -> FALSE

\* The requests of main.py that use the device: each checks
\* printer_client.state.connected first.  ret is the answer: 503, or the
\* "success" field of the result.
Requests ==
    {[op |-> "control_command", command |-> c] : c \in ControlCommands}
    \cup {[op |-> "start_print"]}
    \cup {[op |-> "upload_file", content |-> f] : f \in FileContents}

\* control_printer, start_print_file, upload_gcode: the connected check, then the
\* call.  Without a connection control_printer and start_print_file raise
\* HTTPException(503); upload_gcode with upload_to_printer skips the upload and
\* returns its result, whose "success" is True.
Serve(t) ==
    /\ At(t, "serve")
    /\ IF ~state.connected
       THEN /\ ret' = [ret EXCEPT ![t] =
                         IF arg[t].op = "upload_file" THEN "True" ELSE "503"]
            /\ arg' = [arg EXCEPT ![t] = NoRequest]
            /\ Return(t)
       ELSE Goto(t, arg[t].op) /\ UNCHANGED <<ret, arg>>
    /\ UNCHANGED <<state, sock, lock, running, poll_thread, callbacks, cmd, resp, idx,
                   held, delivered, wire, data, sessions, sent, invoked, reconnects, last>>

\* The client's methods a request thread calls on its own.
ClientCalls == {"connect", "disconnect", "start_polling", "add_status_callback", "get_state"}

\* A request thread starts its next call.
Invoke(t) ==
    /\ At(t, "idle")
    /\ \/ \E m \in ClientCalls :
            \* start_polling creates a thread only when _running is false
            /\ m = "start_polling" =>
                  running \/ Cardinality(FreeWorkers) > Cardinality(Starting)
            /\ m = "add_status_callback" => callbacks < MaxCallbacks
            /\ pc' = [pc EXCEPT ![t] = <<m, "idle">>]
            /\ arg' = [arg EXCEPT ![t] = NoRequest]
       \/ \E r \in Requests :
            /\ pc' = [pc EXCEPT ![t] = <<"serve", "idle">>]
            /\ arg' = [arg EXCEPT ![t] = r]
    /\ ret' = [ret EXCEPT ![t] = None]
    /\ UNCHANGED <<state, sock, lock, running, poll_thread, callbacks, cmd, resp, idx,
                   held, delivered, wire, data, sessions, sent, invoked, reconnects, last>>

\* One step of thread t.
Step(t) ==
    \/ Invoke(t) \/ Serve(t)
    \/ SendCommand(t) \/ CloseSocket(t) \/ Connect(t) \/ Disconnect(t)
    \/ HandleConnectionError(t) \/ PollStatus(t) \/ PollLoop(t) \/ StartPolling(t)
    \/ GetState(t) \/ AddStatusCallback(t)
    \/ ControlCommand(t) \/ StartPrint(t) \/ UploadFile(t)

Next == \E t \in Threads : Step(t)

Spec == Init /\ [][Next]_vars

\* Every thread that can run does run (the operating system's scheduler).
FairSpec == Spec /\ \A t \in Threads : WF_vars(Step(t))

\* ------------------------------------------------- the parsers on their own

\* The state connect() leaves: the parsers run in poll_status, on a connected
\* client.
ConnectedState == [PrinterState EXCEPT !.connected = TRUE, !.status = "IDLE"]

\* Texts the three queries are answered with (non-empty: poll_status parses
\* no empty response).
TemperatureTexts ==
    {"T0:150/200 B:20/60\r\nok\r\n", "T0:205/200 B:61/60\r\nok\r\n",
     "T0:25/0 B:22/0\r\nok\r\n"}
StatusTexts ==
    {"MachineStatus: READY\r\nok\r\n", "MachineStatus: PAUSED\r\nok\r\n",
     "MachineStatus: BUILDING_COMPLETED\r\nok\r\n", "Status: Printing\r\nok\r\n",
     "Error: endstop\r\n"}
ProgressTexts ==
    {"SD printing byte 45/100\r\nok\r\n", "SD printing byte 100/100\r\nok\r\n",
     "Not SD printing\r\nok\r\n", "Not printing\r\nok\r\n"}

InitParse ==
    /\ state = ConnectedState
    /\ sock = "open"
    /\ lock = NoThread
    /\ running = FALSE
    /\ poll_thread = NoThread
    /\ callbacks = 0
    /\ pc = [t \in Threads |-> IF t \in Callers THEN <<"idle">> ELSE <<>>]
    /\ cmd = [t \in Threads |-> None]
    /\ resp = [t \in Threads |-> None]
    /\ arg = [t \in Threads |-> NoRequest]
    /\ idx = [t \in Threads |-> 0]
    /\ ret = [t \in Threads |-> IF t \in Callers THEN None ELSE NoObject]
    /\ held = NoObject
    /\ delivered = NoObject
    /\ wire = NoWire
    /\ data = EmptyStore
    /\ sessions = {}
    /\ sent = [t \in Threads |-> <<>>]
    /\ invoked = [t \in Threads |-> <<>>]
    /\ reconnects = [t \in Threads |-> 0]
    /\ last = NoCall

clientVars == <<sock, lock, running, poll_thread, callbacks, pc, cmd, resp, arg, idx,
                ret, held, delivered, wire, data, sessions, sent, invoked, reconnects>>

\* The parsing of one poll cycle of poll_status on a connected client: the
\* temperature response, then the status response, then the progress response
\* unless it is empty.  last keeps the three texts and the states between them.
PollParsed ==
    \E rt \in TemperatureTexts : \E s1 \in {ParseTemperatures(state, rt)} :
    \E rs \in StatusTexts : \E s2 \in {ParseStatus(s1, rs)} :
    \E rp \in ProgressTexts \cup {""} :
        /\ state' = IF Truthy(rp) THEN ParseProgress(s2, rp) ELSE s2
        /\ last' = [parser |-> "poll", temperatures |-> rt, status |-> rs,
                    progress |-> rp, s0 |-> state, s1 |-> s1, s2 |-> s2]
        /\ UNCHANGED clientVars

NextParse == PollParsed

SpecParse == InitParse /\ [][NextParse]_vars

\* ------------------------------------------------ _parse_status on its own

\* Temperatures and targets on both sides of every threshold of
\* _determine_thermal_status (target > 30, diff > 3, diff > 10, temp > 40).
ThermalTemps == {20, 40, 41, 49, 50, 56, 57, 63, 64}
ThermalTargets == {0, 30, 31, 60}
ProgressValues == {0, 45, 100}

\* The states _parse_status is applied to: a connected client with any of the
\* temperatures and progress values, or the client as constructed.
StatusInputs ==
    {[ConnectedState EXCEPT !.nozzle_temp = a, !.nozzle_target = b,
                            !.bed_temp = c, !.bed_target = d, !.progress = p] :
        a \in ThermalTemps, b \in ThermalTargets,
        c \in ThermalTemps, d \in ThermalTargets, p \in ProgressValues}
    \cup {PrinterState}

\* Status responses: those of a poll cycle, and two more with a keyword in
\* another case and with two keywords.
KeywordTexts ==
    StatusTexts \cup {"MachineStatus: Finished\r\nok\r\n", "Error: print paused\r\n"}

InitStatus ==
    /\ state \in StatusInputs
    /\ sock = IF state.connected THEN "open" ELSE None
    /\ lock = NoThread
    /\ running = FALSE
    /\ poll_thread = NoThread
    /\ callbacks = 0
    /\ pc = [t \in Threads |-> IF t \in Callers THEN <<"idle">> ELSE <<>>]
    /\ cmd = [t \in Threads |-> None]
    /\ resp = [t \in Threads |-> None]
    /\ arg = [t \in Threads |-> NoRequest]
    /\ idx = [t \in Threads |-> 0]
    /\ ret = [t \in Threads |-> IF t \in Callers THEN None ELSE NoObject]
    /\ held = NoObject
    /\ delivered = NoObject
    /\ wire = NoWire
    /\ data = EmptyStore
    /\ sessions = {}
    /\ sent = [t \in Threads |-> <<>>]
    /\ invoked = [t \in Threads |-> <<>>]
    /\ reconnects = [t \in Threads |-> 0]
    /\ last = NoCall

\* self._parse_status(status_response); last keeps the text and the state before
StatusParsed ==
    \E rs \in KeywordTexts :
        /\ last.parser = "none"
        /\ state' = ParseStatus(state, rs)
        /\ last' = [parser |-> "status", status |-> rs, s0 |-> state]
        /\ UNCHANGED clientVars

NextStatus == StatusParsed

SpecStatus == InitStatus /\ [][NextStatus]_vars

\* ---------------------------------------------- _parse_progress on its own

DigitChar(d) == SubSeq("0123456789", d + 1, d + 1)

RECURSIVE NumeralOf(_)
\* the decimal numeral of n >= 0
NumeralOf(n) == IF n < 10 THEN DigitChar(n) ELSE NumeralOf(n \div 10) \o DigitChar(n % 10)

\* the decimal numeral the device writes for n
Numeral(n) == IF n < 0 THEN "-" \o NumeralOf(0 - n) ELSE NumeralOf(n)

\* The M27 response to a print at byte current of total.
ByteCountText(current, total) ==
    "SD printing byte " \o Numeral(current) \o "/" \o Numeral(total) \o "\r\nok\r\n"

\* Byte counts a device reports: thirds, hundredths, a count past the total, a
\* zero total.
ByteCurrents == {0, 1, 2, 29, 45, 100, 150}
ByteTotals == {0, 3, 100}

\* Progress responses without a byte count that parses: a word for the count,
\* no total, and the two "not printing" forms.
OtherProgressTexts ==
    {"SD printing byte abc/100\r\nok\r\n", "SD printing byte 45\r\nok\r\n",
     "SD printing byte 45/\r\nok\r\n", "Not SD printing\r\nok\r\n",
     "Not printing\r\nok\r\n"}

\* The states _parse_progress is applied to: a connected client after the status
\* poll of the cycle.
ProgressInputs ==
    {[ConnectedState EXCEPT !.progress = p, !.status = st] :
        p \in ProgressValues, st \in {"IDLE", "PRINTING", "PAUSED", "COMPLETE"}}

InitProgress ==
    /\ state \in ProgressInputs
    /\ sock = "open"
    /\ lock = NoThread
    /\ running = FALSE
    /\ poll_thread = NoThread
    /\ callbacks = 0
    /\ pc = [t \in Threads |-> IF t \in Callers THEN <<"idle">> ELSE <<>>]
    /\ cmd = [t \in Threads |-> None]
    /\ resp = [t \in Threads |-> None]
    /\ arg = [t \in Threads |-> NoRequest]
    /\ idx = [t \in Threads |-> 0]
    /\ ret = [t \in Threads |-> IF t \in Callers THEN None ELSE NoObject]
    /\ held = NoObject
    /\ delivered = NoObject
    /\ wire = NoWire
    /\ data = EmptyStore
    /\ sessions = {}
    /\ sent = [t \in Threads |-> <<>>]
    /\ invoked = [t \in Threads |-> <<>>]
    /\ reconnects = [t \in Threads |-> 0]
    /\ last = NoCall

\* self._parse_progress(progress_response) on a byte-count response
ByteCountParsed ==
    \E current \in ByteCurrents, total \in ByteTotals :
        /\ last.parser = "none"
        /\ state' = ParseProgress(state, ByteCountText(current, total))
        /\ last' = [parser |-> "progress", progress |-> ByteCountText(current, total),
                    bytes |-> <<current, total>>, s0 |-> state]
        /\ UNCHANGED clientVars

\* self._parse_progress(progress_response) on another response
ProgressTextParsed ==
    \E rp \in OtherProgressTexts :
        /\ last.parser = "none"
        /\ state' = ParseProgress(state, rp)
        /\ last' = [parser |-> "progress", progress |-> rp, bytes |-> <<>>, s0 |-> state]
        /\ UNCHANGED clientVars

NextProgress == ByteCountParsed \/ ProgressTextParsed

SpecProgress == InitProgress /\ [][NextProgress]_vars

\* ------------------------------------------ _parse_temperatures on its own

\* The M105 response for nozzle a/b and bed c/d.
TemperatureText(a, b, c, d) ==
    "T0:" \o Numeral(a) \o "/" \o Numeral(b) \o " B:" \o Numeral(c) \o "/"
        \o Numeral(d) \o "\r\nok\r\n"

NozzleTemps == {0, 150, 205}
NozzleTargets == {0, 200}
BedTemps == {20, 61}
BedTargets == {0, 60}

\* Temperature responses with a fragment missing or malformed, and for each
\* whether its nozzle and its bed fragment are a complete <cur>/<tgt> pair of
\* numbers.
BrokenTemperatureTexts ==
    {[text |-> "T0:200/abc B:60/60\r\nok\r\n", nozzle |-> FALSE, bed |-> TRUE],
     [text |-> "T0:abc/200 B:60/60\r\nok\r\n", nozzle |-> FALSE, bed |-> TRUE],
     [text |-> "T0:200 B:60/60\r\nok\r\n", nozzle |-> FALSE, bed |-> TRUE],
     [text |-> "T0:1/2/3 B:60/60\r\nok\r\n", nozzle |-> FALSE, bed |-> TRUE],
     [text |-> "B:60/60\r\nok\r\n", nozzle |-> FALSE, bed |-> TRUE],
     [text |-> "T0:200/210\r\nok\r\n", nozzle |-> TRUE, bed |-> FALSE],
     [text |-> "T0:200/210 B:60/xyz\r\nok\r\n", nozzle |-> TRUE, bed |-> FALSE],
     [text |-> "T0:", nozzle |-> FALSE, bed |-> FALSE]}

\* The states _parse_temperatures is applied to: a connected client with the
\* readings of an earlier poll.
TemperatureInputs ==
    {[ConnectedState EXCEPT !.nozzle_temp = 25, !.nozzle_target = 0,
                            !.bed_temp = 22, !.bed_target = 0],
     [ConnectedState EXCEPT !.nozzle_temp = 210, !.nozzle_target = 210,
                            !.bed_temp = 55, !.bed_target = 55,
                            !.status = "PRINTING", !.progress = 45],
     [ConnectedState EXCEPT !.nozzle_temp = 180, !.nozzle_target = 210,
                            !.bed_temp = 40, !.bed_target = 55,
                            !.status = "HEATING", !.led_on = FALSE],
     [ConnectedState EXCEPT !.nozzle_temp = 90, !.nozzle_target = 10,
                            !.bed_temp = 45, !.bed_target = 10,
                            !.status = "COOLING", !.progress = 100]}

InitTemperatures ==
    /\ state \in TemperatureInputs
    /\ sock = "open"
    /\ lock = NoThread
    /\ running = FALSE
    /\ poll_thread = NoThread
    /\ callbacks = 0
    /\ pc = [t \in Threads |-> IF t \in Callers THEN <<"idle">> ELSE <<>>]
    /\ cmd = [t \in Threads |-> None]
    /\ resp = [t \in Threads |-> None]
    /\ arg = [t \in Threads |-> NoRequest]
    /\ idx = [t \in Threads |-> 0]
    /\ ret = [t \in Threads |-> IF t \in Callers THEN None ELSE NoObject]
    /\ held = NoObject
    /\ delivered = NoObject
    /\ wire = NoWire
    /\ data = EmptyStore
    /\ sessions = {}
    /\ sent = [t \in Threads |-> <<>>]
    /\ invoked = [t \in Threads |-> <<>>]
    /\ reconnects = [t \in Threads |-> 0]
    /\ last = NoCall

\* self._parse_temperatures(temp_response) on a response with four numbers
TemperaturesParsed ==
    \E a \in NozzleTemps, b \in NozzleTargets, c \in BedTemps, d \in BedTargets :
        /\ last.parser = "none"
        /\ state' = ParseTemperatures(state, TemperatureText(a, b, c, d))
        /\ last' = [parser |-> "temperatures",
                    temperatures |-> TemperatureText(a, b, c, d),
                    values |-> <<a, b, c, d>>, nozzle |-> TRUE, bed |-> TRUE,
                    s0 |-> state]
        /\ UNCHANGED clientVars

\* self._parse_temperatures(temp_response) on a response with a fragment missing
\* or malformed
BrokenTemperaturesParsed ==
    \E r \in BrokenTemperatureTexts :
        /\ last.parser = "none"
        /\ state' = ParseTemperatures(state, r.text)
        /\ last' = [parser |-> "temperatures", temperatures |-> r.text,
                    values |-> <<>>, nozzle |-> r.nozzle, bed |-> r.bed, s0 |-> state]
        /\ UNCHANGED clientVars

NextTemperatures == TemperaturesParsed \/ BrokenTemperaturesParsed

SpecTemperatures == InitTemperatures /\ [][NextTemperatures]_vars

\* ---------------------------------- the single-command operations on their own

Max(a, b) == IF a > b THEN a ELSE b

\* emergency_stop, pause_print, resume_print, fan_on, fan_off, disable_motors,
\* home_axes: the commands of the operations that only report the acknowledgment
SingleCommands == {"~M112", "~M25", "~M24", "~M106", "~M107", "~M18", "~G28"}

\* The calls of the operations of one command each, with their arguments.
CommandCalls ==
    {[op |-> "control_command", command |-> c] : c \in SingleCommands}
    \cup {[op |-> "toggle_led", on |-> b] : b \in BOOLEAN}
    \cup {[op |-> "set_nozzle_temp", temperature |-> k] : k \in {-5, 210, 350}}
    \cup {[op |-> "set_bed_temp", temperature |-> k] : k \in {-5, 60, 150}}
    \cup {[op |-> "delete_file"]}

\* toggle_led(on)
ToggleLed(t) ==
    /\ UNCHANGED <<sock, running, poll_thread, callbacks, idx, held, delivered, wire, data, sessions, invoked,
                   reconnects, last>>
    /\ CASE At(t, "toggle_led") ->
              /\ LockAcquire(t)
              /\ CallSend(t, sock, IF arg[t].on THEN "~M146 r255 g255 b255 F0"
                                   ELSE "~M146 r0 g0 b0 F0", "led_toggled")
              /\ UNCHANGED <<state, arg, ret>>
         [] At(t, "led_toggled") ->
              /\ IF Acked(resp[t])
                 THEN /\ state' = [state EXCEPT !.led_on = arg[t].on]
                      /\ ret' = [ret EXCEPT ![t] = "True"]
                 ELSE /\ ret' = [ret EXCEPT ![t] = "False"]
                      /\ UNCHANGED state
              /\ resp' = [resp EXCEPT ![t] = None]
              /\ arg' = [arg EXCEPT ![t] = NoRequest]
              /\ LockRelease(t) /\ Return(t)
              /\ UNCHANGED cmd
              /\ sent' = [sent EXCEPT ![t] = <<>>]
         [] OTHER -> FALSE

\* set_nozzle_temp(temperature)
SetNozzleTemp(t) ==
    /\ UNCHANGED <<sock, running, poll_thread, callbacks, idx, held, delivered, wire, data, sessions, invoked,
                   reconnects, last>>
    /\ CASE At(t, "set_nozzle_temp") ->
              /\ LockAcquire(t)
              /\ CallSend(t, sock,
                          "~M104 S" \o Numeral(Max(0, Min(300, arg[t].temperature))),
                          "nozzle_temp_set")
              /\ UNCHANGED <<state, arg, ret>>
         [] At(t, "nozzle_temp_set") ->
              /\ IF Acked(resp[t])
                 THEN /\ state' = [state EXCEPT !.nozzle_target =
                                                   Max(0, Min(300, arg[t].temperature))]
                      /\ ret' = [ret EXCEPT ![t] = "True"]
                 ELSE /\ ret' = [ret EXCEPT ![t] = "False"]
                      /\ UNCHANGED state
              /\ resp' = [resp EXCEPT ![t] = None]
              /\ arg' = [arg EXCEPT ![t] = NoRequest]
              /\ LockRelease(t) /\ Return(t)
              /\ UNCHANGED cmd
              /\ sent' = [sent EXCEPT ![t] = <<>>]
         [] OTHER -> FALSE

\* set_bed_temp(temperature)
SetBedTemp(t) ==
    /\ UNCHANGED <<sock, running, poll_thread, callbacks, idx, held, delivered, wire, data, sessions, invoked,
                   reconnects, last>>
    /\ CASE At(t, "set_bed_temp") ->
              /\ LockAcquire(t)
              /\ CallSend(t, sock,
                          "~M140 S" \o Numeral(Max(0, Min(120, arg[t].temperature))),
                          "bed_temp_set")
              /\ UNCHANGED <<state, arg, ret>>
         [] At(t, "bed_temp_set") ->
              /\ IF Acked(resp[t])
                 THEN /\ state' = [state EXCEPT !.bed_target =
                                                   Max(0, Min(120, arg[t].temperature))]
                      /\ ret' = [ret EXCEPT ![t] = "True"]
                 ELSE /\ ret' = [ret EXCEPT ![t] = "False"]
                      /\ UNCHANGED state
              /\ resp' = [resp EXCEPT ![t] = None]
              /\ arg' = [arg EXCEPT ![t] = NoRequest]
              /\ LockRelease(t) /\ Return(t)
              /\ UNCHANGED cmd
              /\ sent' = [sent EXCEPT ![t] = <<>>]
         [] OTHER -> FALSE

\* delete_file(filename)
DeleteFile(t) ==
    /\ UNCHANGED <<state, sock, running, poll_thread, callbacks, idx, held, delivered, wire, data, sessions,
                   invoked, reconnects, last>>
    /\ CASE At(t, "delete_file") ->
              /\ LockAcquire(t)
              /\ CallSend(t, sock, "~M30 " \o FileName, "file_deleted")
              /\ UNCHANGED <<arg, ret>>
         [] At(t, "file_deleted") ->
              /\ ret' = [ret EXCEPT ![t] = IF Acked(resp[t]) THEN "True" ELSE "False"]
              /\ resp' = [resp EXCEPT ![t] = None]
              /\ arg' = [arg EXCEPT ![t] = NoRequest]
              /\ LockRelease(t) /\ Return(t)
              /\ UNCHANGED cmd
              /\ sent' = [sent EXCEPT ![t] = <<>>]
         [] OTHER -> FALSE

\* The client when one of these operations is called: never connected,
\* connected, or disconnected again after a poll.
CommandStates ==
    {PrinterState, ConnectedState,
     [PrinterState EXCEPT !.nozzle_temp = 150, !.nozzle_target = 200,
                          !.bed_temp = 20, !.bed_target = 60]}

\* One caller has just entered one of the operations.
InitCommand ==
    /\ state \in CommandStates
    /\ sock = IF state.connected THEN "open" ELSE None
    /\ lock = NoThread
    /\ running = FALSE
    /\ poll_thread = NoThread
    /\ callbacks = 0
    /\ \E c \in CommandCalls :
          /\ pc = [t \in Threads |-> IF t = 1 THEN <<c.op, "idle">>
                                     ELSE IF t \in Callers THEN <<"idle">> ELSE <<>>]
          /\ arg = [t \in Threads |-> IF t = 1 THEN c ELSE NoRequest]
    /\ cmd = [t \in Threads |-> None]
    /\ resp = [t \in Threads |-> None]
    /\ idx = [t \in Threads |-> 0]
    /\ ret = [t \in Threads |-> IF t \in Callers THEN None ELSE NoObject]
    /\ held = NoObject
    /\ delivered = NoObject
    /\ wire = NoWire
    /\ data = EmptyStore
    /\ sessions = {}
    /\ sent = [t \in Threads |-> <<>>]
    /\ invoked = [t \in Threads |-> <<>>]
    /\ reconnects = [t \in Threads |-> 0]
    /\ last = NoCall

NextCommand ==
    \E t \in Threads :
        \/ ControlCommand(t) \/ ToggleLed(t) \/ SetNozzleTemp(t) \/ SetBedTemp(t)
        \/ DeleteFile(t) \/ SendCommand(t)

SpecCommand == InitCommand /\ [][NextCommand]_vars

\* ------------------------------------------------ _send_command on its own

\* Chunks a response is read in, at most.
MaxChunks == 3

\* What a recv can end with instead of data: socket.timeout, socket.error, or
\* the empty chunk of a connection the device closed.
Timeout == "<timeout>"
SocketError == "<error>"
Closed == ""

\* A byte that is no UTF-8 text stands as "#".
InvalidByte == "#"

\* The chunks recv returns: whole lines, the success terminator whole and in
\* two pieces, an error line, a stray byte.
Chunks == {"Received.\r\n", "ok\r\n", "o", "k\r\n", "Error: x\r\n", InvalidByte}

\* What the recv calls of one _send_command would return, one after the other:
\* some chunks, then a timeout, an error or the end of the connection.
RecvStreams ==
    {chunks \o <<e>> :
        chunks \in UNION {[1..n -> Chunks] : n \in 0..MaxChunks},
        e \in {Timeout, SocketError, Closed}}

RECURSIVE DecodeFrom(_, _)
\* the bytes of b from place i on, those that are no text dropped
DecodeFrom(b, i) ==
    IF i > Len(b) THEN ""
    ELSE (IF CharAt(b, i) = InvalidByte THEN "" ELSE CharAt(b, i))
         \o DecodeFrom(b, i + 1)

\* response.decode('utf-8', errors='ignore')
Decode(b) == Bind(b, LAMBDA v : DecodeFrom(v, 1))

\* a read loop that ends at the success terminator only
EndOfResponseOkOnly(response) == Contains(response, "ok\r\n")

\* b"ok\r\n" in response or b"Error" in response
EndOfResponse(response) == Contains(response, "ok\r\n") \/ Contains(response, "Error")

\* A caller has just entered _send_command("~M105"); last.events is what the
\* socket will give to its recv calls.
InitSend ==
    /\ state \in {PrinterState, ConnectedState}
    /\ sock = IF state.connected THEN "open" ELSE None
    /\ lock = 1
    /\ running = FALSE
    /\ poll_thread = NoThread
    /\ callbacks = 0
    /\ pc = [t \in Threads |-> IF t = 1 THEN <<"send_sendall", "idle">>
                               ELSE IF t \in Callers THEN <<"idle">> ELSE <<>>]
    /\ cmd = [t \in Threads |-> IF t = 1 THEN "~M105" ELSE None]
    /\ resp = [t \in Threads |-> None]
    /\ arg = [t \in Threads |-> NoRequest]
    /\ idx = [t \in Threads |-> 0]
    /\ ret = [t \in Threads |-> IF t \in Callers THEN None ELSE NoObject]
    /\ held = NoObject
    /\ delivered = NoObject
    /\ wire = NoWire
    /\ data = EmptyStore
    /\ sessions = {}
    /\ sent = [t \in Threads |-> <<>>]
    /\ invoked = [t \in Threads |-> <<>>]
    /\ reconnects = [t \in Threads |-> 0]
    /\ \E events \in RecvStreams : last = [parser |-> "send_command", events |-> events]

\* _send_command(command) up to its read loop: the socket test and sendall
SendCommandSendall(t) ==
    /\ At(t, "send_sendall")
    /\ IF sock = None
       THEN /\ ret' = [ret EXCEPT ![t] = None]
            /\ Return(t)
            /\ UNCHANGED <<sent, resp>>
       ELSE /\ sent' = [sent EXCEPT ![t] = Append(@, cmd[t] \o "\r\n")]
            /\ \/ \* response = b""
                  /\ resp' = [resp EXCEPT ![t] = ""]
                  /\ Goto(t, "send_recv")
                  /\ UNCHANGED ret
               \/ \* sendall raised socket.error
                  /\ ret' = [ret EXCEPT ![t] = None]
                  /\ Return(t)
                  /\ UNCHANGED resp
    /\ UNCHANGED <<state, sock, lock, running, poll_thread, callbacks, cmd, arg, idx,
                   held, delivered, wire, data, sessions, invoked, reconnects, last>>

\* One pass of the read loop of _send_command: a recv and what follows it
SendCommandRecv(t) ==
    /\ At(t, "send_recv")
    /\ idx' = [idx EXCEPT ![t] = @ + 1]
    /\ \E event \in {last.events[idx[t] + 1]} :
          CASE event = SocketError ->
                 \* except (socket.error, OSError): return None
                 /\ ret' = [ret EXCEPT ![t] = None]
                 /\ Return(t)
                 /\ UNCHANGED resp
            [] event = Timeout \/ event = Closed ->
                 \* break; return response.decode(...)
                 /\ ret' = [ret EXCEPT ![t] = Decode(resp[t])]
                 /\ Return(t)
                 /\ UNCHANGED resp
            [] OTHER ->
                 \E response \in {resp[t] \o event} :
                    /\ resp' = [resp EXCEPT ![t] = response]
                    /\ IF EndOfResponse(response)
                       THEN /\ ret' = [ret EXCEPT ![t] = Decode(response)]
                            /\ Return(t)
                       ELSE UNCHANGED <<pc, ret>>
    /\ UNCHANGED <<state, sock, lock, running, poll_thread, callbacks, cmd, arg, sent,
                   held, delivered, wire, data, sessions, invoked, reconnects, last>>

NextSend == \E t \in Threads : SendCommandSendall(t) \/ SendCommandRecv(t)

SpecSend == InitSend /\ [][NextSend]_vars

\* ------------------------------------- successive commands on one connection

\* Commands the device hears in one run, at most.
MaxCommands == 2

\* The first line of the device's reply to a command ("~M112" is answered
\* with "CMD M112 Received.").
ReplyHeader(c) == "CMD " \o SubSeq(c, 2, Len(c)) \o " Received.\r\n"

\* The ways the device answers command c, as the chunks it sends: the
\* acknowledgment in one chunk or in two, or an error.
ExchangeReplies(c) ==
    {<<[reply_to |-> c, bytes |-> ReplyHeader(c) \o "ok\r\n"]>>,
     <<[reply_to |-> c, bytes |-> ReplyHeader(c)],
       [reply_to |-> c, bytes |-> "ok\r\n"]>>,
     <<[reply_to |-> c, bytes |-> ReplyHeader(c) \o "Error: failed\r\n"]>>}

\* The operations called one after the other.
ExchangeCalls ==
    {[op |-> "control_command", command |-> c] : c \in {"~M112", "~G28"}}
    \cup {[op |-> "delete_file"]}

\* A connected client at rest, nothing on the connection.
InitExchange ==
    /\ state = ConnectedState
    /\ sock = "open"
    /\ lock = NoThread
    /\ running = FALSE
    /\ poll_thread = NoThread
    /\ callbacks = 0
    /\ pc = [t \in Threads |-> IF t \in Callers THEN <<"idle">> ELSE <<>>]
    /\ cmd = [t \in Threads |-> None]
    /\ resp = [t \in Threads |-> None]
    /\ arg = [t \in Threads |-> NoRequest]
    /\ idx = [t \in Threads |-> 0]
    /\ ret = [t \in Threads |-> IF t \in Callers THEN None ELSE NoObject]
    /\ held = NoObject
    /\ delivered = NoObject
    /\ wire = NoWire
    /\ data = EmptyStore
    /\ sessions = {}
    /\ sent = [t \in Threads |-> <<>>]
    /\ invoked = [t \in Threads |-> <<>>]
    /\ reconnects = [t \in Threads |-> 0]
    /\ last = NoCall

\* A request thread calls its next operation.
InvokeCommand(t) ==
    /\ At(t, "idle")
    /\ wire.heard < MaxCommands
    /\ \E c \in ExchangeCalls :
          /\ pc' = [pc EXCEPT ![t] = <<c.op, "idle">>]
          /\ arg' = [arg EXCEPT ![t] = c]
    /\ ret' = [ret EXCEPT ![t] = None]
    /\ UNCHANGED <<state, sock, lock, running, poll_thread, callbacks, cmd, resp, idx,
                   held, delivered, wire, data, sessions, sent, invoked, reconnects, last>>

\* _send_command after its sendall: response = b"".  The device hears the
\* command and has its reply to send.
ExchangeBegin(t) ==
    /\ At(t, "send_command") /\ resp[t] = None
    /\ resp' = [resp EXCEPT ![t] = ""]
    /\ \E reply \in ExchangeReplies(cmd[t]) :
          wire' = [pending |-> wire.pending \o reply, inbox |-> wire.inbox,
                   read_from |-> {}, heard |-> wire.heard + 1]
    /\ UNCHANGED <<state, sock, lock, running, poll_thread, callbacks, pc, cmd, arg,
                   idx, ret, held, delivered, data, sessions, sent, invoked, reconnects, last>>

\* The device sends the next chunk it has to send: it arrives in the socket's
\* receive buffer, whatever the client is doing.
DeviceSends ==
    /\ wire.pending # <<>>
    /\ wire' = [wire EXCEPT !.pending = Tail(@), !.inbox = Append(@, Head(wire.pending))]
    /\ UNCHANGED <<state, sock, lock, running, poll_thread, callbacks, pc, cmd, resp,
                   arg, idx, ret, held, delivered, data, sessions, sent, invoked, reconnects, last>>

\* One pass of the read loop of _send_command on the connection: recv returns
\* the bytes waiting in the receive buffer, or times out when there are none.
ExchangeRecv(t) ==
    /\ At(t, "send_command") /\ resp[t] # None
    /\ IF wire.inbox # <<>>
       THEN \E response \in {resp[t] \o Head(wire.inbox).bytes} :
               /\ wire' = [wire EXCEPT !.inbox = Tail(@),
                                       !.read_from = @ \cup {Head(wire.inbox).reply_to}]
               /\ IF EndOfResponse(response)
                  THEN /\ resp' = [resp EXCEPT ![t] = Decode(response)]
                       /\ cmd' = [cmd EXCEPT ![t] = None]
                       /\ Return(t)
                  ELSE /\ resp' = [resp EXCEPT ![t] = response]
                       /\ UNCHANGED <<pc, cmd>>
       ELSE \* socket.timeout: break
            /\ resp' = [resp EXCEPT ![t] = Decode(resp[t])]
            /\ cmd' = [cmd EXCEPT ![t] = None]
            /\ Return(t)
            /\ UNCHANGED wire
    /\ UNCHANGED <<state, sock, lock, running, poll_thread, callbacks, arg, idx, ret,
                   held, delivered, data, sessions, sent, invoked, reconnects, last>>

NextExchange ==
    \/ DeviceSends
    \/ \E t \in Threads :
          \/ InvokeCommand(t) \/ ControlCommand(t) \/ DeleteFile(t)
          \/ ExchangeBegin(t) \/ ExchangeRecv(t)

SpecExchange == InitExchange /\ [][NextExchange]_vars

\* ------------------------------------------- the time strings on their own
\* GCodeParser._format_time and GCodeParser._parse_time_string
\* (src/backend/gcode_parser.py), applied once to a number of seconds or to a
\* duration text.

\* f"{n:02d}": at least two decimal digits
TwoDigits(n) == IF n < 10 THEN "0" \o Numeral(n) ELSE Numeral(n)

\* _format_time without the reduction of the minutes modulo the hour
FormatTimeNoCarry(seconds) ==
    TwoDigits(seconds \div 3600) \o ":" \o TwoDigits(seconds \div 60) \o ":"
        \o TwoDigits(seconds % 60)

\* self._format_time(seconds)
FormatTime(seconds) ==
    TwoDigits(seconds \div 3600) \o ":" \o TwoDigits((seconds % 3600) \div 60) \o ":"
        \o TwoDigits(seconds % 60)

RECURSIVE FirstDigit(_, _)
\* the first place of s, from i on, that holds a digit; Len(s) + 1 when none does
FirstDigit(s, i) ==
    IF i > Len(s) \/ IsDigit(CharAt(s, i)) THEN i ELSE FirstDigit(s, i + 1)

RECURSIVE DigitRunEnd(_, _)
\* the last place of the run of digits of s that starts at i
DigitRunEnd(s, i) ==
    IF i < Len(s) /\ IsDigit(CharAt(s, i + 1)) THEN DigitRunEnd(s, i + 1) ELSE i

RECURSIVE SearchUnitFrom(_, _, _)
\* re.search(r"(\d+)\s*" + unit, s) from place i on: the leftmost run of digits
\* that white space and then the unit letter follow; group(1) is the whole run
SearchUnitFrom(s, unit, i) ==
    Bind(FirstDigit(s, i), LAMBDA a :
        IF a > Len(s) THEN [found |-> FALSE, val |-> 0]
        ELSE Bind(DigitRunEnd(s, a), LAMBDA e :
             Bind(FirstNonSpace(s, e + 1), LAMBDA w :
                 IF w <= Len(s) /\ CharAt(s, w) = unit
                 THEN [found |-> TRUE, val |-> DigitsVal(SubSeq(s, a, e))]
                 ELSE SearchUnitFrom(s, unit, e + 1))))

\* the patterns of _parse_time_string: the letter that ends each (the optional
\* "in" and "ec" change neither the match nor its group) and its multiplier
TimePatterns == <<[unit |-> "d", multiplier |-> 86400], [unit |-> "h", multiplier |-> 3600],
                  [unit |-> "m", multiplier |-> 60], [unit |-> "s", multiplier |-> 1]>>

RECURSIVE UnitSecondsUpTo(_, _)
\* total_seconds after the first k patterns
UnitSecondsUpTo(s, k) ==
    IF k = 0 THEN 0
    ELSE Bind(SearchUnitFrom(s, TimePatterns[k].unit, 1), LAMBDA match :
             UnitSecondsUpTo(s, k - 1)
                 + (IF match.found THEN match.val * TimePatterns[k].multiplier ELSE 0))

\* re.match(r"(\d+):(\d+):(\d+)", s) and h * 3600 + m * 60 + s of its groups;
\* 0 when s does not start that way
ClockSeconds(s) ==
    Bind(s, LAMBDA v :
        IF ~(Len(v) > 0 /\ IsDigit(CharAt(v, 1))) THEN 0
        ELSE Bind(DigitRunEnd(v, 1), LAMBDA e1 :
            IF ~(e1 + 2 <= Len(v) /\ CharAt(v, e1 + 1) = ":" /\ IsDigit(CharAt(v, e1 + 2)))
            THEN 0
            ELSE Bind(DigitRunEnd(v, e1 + 2), LAMBDA e2 :
                IF ~(e2 + 2 <= Len(v) /\ CharAt(v, e2 + 1) = ":"
                        /\ IsDigit(CharAt(v, e2 + 2)))
                THEN 0
                ELSE DigitsVal(SubSeq(v, 1, e1)) * 3600
                        + DigitsVal(SubSeq(v, e1 + 2, e2)) * 60
                        + DigitsVal(SubSeq(v, e2 + 2, DigitRunEnd(v, e2 + 2))))))

\* self._parse_time_string(time_str)
ParseTimeString(time_str) ==
    Bind(Lower(Strip(time_str)), LAMBDA v :
        IF AllDigits(v) THEN DigitsVal(v)
        ELSE Bind(UnitSecondsUpTo(v, Len(TimePatterns)), LAMBDA total_seconds :
                 IF total_seconds = 0 THEN ClockSeconds(v) ELSE total_seconds))

\* Numbers of seconds: none, under a minute, around the minute, the hour and
\* the day, and past a hundred hours.
TimeSeconds == {0, 1, 59, 60, 61, 3599, 3600, 3661, 5400, 5445, 86399, 86400, 95400,
                359999, 360000, 363599}

\* A unit of a duration text is absent (<<>>) or present with its amount.
DayAmounts == {<<>>, <<0>>, <<1>>, <<12>>}
HourAmounts == {<<>>, <<0>>, <<2>>, <<25>>}
MinuteAmounts == {<<>>, <<0>>, <<30>>, <<90>>}
SecondAmounts == {<<>>, <<0>>, <<45>>, <<100>>}

\* How a slicer writes the units: the letter, the abbreviation, or the capital
\* letter after a space.
UnitStyles == {"letter", "abbreviation", "spaced"}

UnitText(amount, style, letter, abbreviation) ==
    IF amount = <<>> THEN ""
    ELSE CASE style = "letter" -> Numeral(amount[1]) \o letter \o " "
           [] style = "abbreviation" -> Numeral(amount[1]) \o abbreviation \o " "
           [] style = "spaced" -> " " \o Numeral(amount[1]) \o " " \o abbreviation \o " "

\* the duration text of the given amounts, e.g. "1d 2h 30m " or "2h 30min 45sec "
DurationText(d, h, m, s, style) ==
    IF style = "spaced"
    THEN UnitText(d, style, "D", "D") \o UnitText(h, style, "H", "H")
            \o UnitText(m, style, "M", "Min") \o UnitText(s, style, "S", "Sec")
    ELSE UnitText(d, style, "d", "d") \o UnitText(h, style, "h", "h")
            \o UnitText(m, style, "m", "min") \o UnitText(s, style, "s", "sec")

\* No GCodeParser call has been made; the printer client is as constructed.
InitTime == Init

\* self._parse_time_string(self._format_time(seconds))
FormattedTimeParsed ==
    \E seconds \in TimeSeconds :
        /\ last.parser = "none"
        /\ last' = [parser |-> "time", kind |-> "clock", seconds |-> seconds,
                    units |-> <<>>, text |-> FormatTime(seconds),
                    parsed |-> ParseTimeString(FormatTime(seconds))]
        /\ UNCHANGED <<state, clientVars>>

\* self._parse_time_string(time_str) on a bare number of seconds
SecondsTextParsed ==
    \E seconds \in TimeSeconds :
        /\ last.parser = "none"
        /\ last' = [parser |-> "time", kind |-> "seconds", seconds |-> seconds,
                    units |-> <<>>, text |-> Numeral(seconds),
                    parsed |-> ParseTimeString(Numeral(seconds))]
        /\ UNCHANGED <<state, clientVars>>

\* self._parse_time_string(time_str) on a duration text with units
DurationTextParsed ==
    \E d \in DayAmounts, h \in HourAmounts, m \in MinuteAmounts, s \in SecondAmounts,
       style \in UnitStyles :
        /\ last.parser = "none"
        /\ last' = [parser |-> "time", kind |-> "units", seconds |-> 0,
                    units |-> <<d, h, m, s>>, text |-> DurationText(d, h, m, s, style),
                    parsed |-> ParseTimeString(DurationText(d, h, m, s, style))]
        /\ UNCHANGED <<state, clientVars>>

NextTime == FormattedTimeParsed \/ SecondsTextParsed \/ DurationTextParsed

SpecTime == InitTime /\ [][NextTime]_vars

\* ------------------------------------------- the polling workers on their own
\* start_polling, disconnect, connect and main.py's reconnect_printer on one
\* client, with room for one thread more than the polling worker: every
\* threading.Thread(...).start() of start_polling makes a new thread.

PollingWorkers == (NumCallers + 1)..(NumCallers + NumWorkers + 1)
PollingThreads == Callers \cup PollingWorkers

InitPolling ==
    /\ state = PrinterState
    /\ sock = None
    /\ lock = NoThread
    /\ running = FALSE
    /\ poll_thread = NoThread
    /\ callbacks = 0
    /\ pc = [t \in PollingThreads |-> IF t \in Callers THEN <<"idle">> ELSE <<>>]
    /\ cmd = [t \in PollingThreads |-> None]
    /\ resp = [t \in PollingThreads |-> None]
    /\ arg = [t \in PollingThreads |-> NoRequest]
    /\ idx = [t \in PollingThreads |-> 0]
    /\ ret = [t \in PollingThreads |-> IF t \in Callers THEN None ELSE NoObject]
    /\ held = NoObject
    /\ delivered = NoObject
    /\ wire = NoWire
    /\ data = EmptyStore
    /\ sessions = {}
    /\ sent = [t \in PollingThreads |-> <<>>]
    /\ invoked = [t \in PollingThreads |-> <<>>]
    /\ reconnects = [t \in PollingThreads |-> 0]
    /\ last = NoCall

\* The calls that start and stop the polling worker.
PollingCalls == {"connect", "disconnect", "start_polling", "reconnect_printer"}

\* A request thread starts its next call.
InvokePolling(t) ==
    /\ At(t, "idle")
    /\ \E m \in PollingCalls :
            /\ m = "start_polling" => running \/ FreeWorkers # {}
            /\ m = "reconnect_printer" => FreeWorkers # {}
            /\ pc' = [pc EXCEPT ![t] = <<m, "idle">>]
    /\ ret' = [ret EXCEPT ![t] = None]
    /\ UNCHANGED <<state, sock, lock, running, poll_thread, callbacks, cmd, resp, arg,
                   idx, held, delivered, wire, data, sessions, sent, invoked, reconnects, last>>

\* reconnect_printer() of main.py: disconnect(), connect() and, when that
\* succeeded, start_polling(), on the same client
ReconnectPrinter(t) ==
    /\ UNCHANGED <<state, sock, lock, running, poll_thread, callbacks, cmd, resp, arg,
                   idx, held, delivered, wire, data, sessions, sent, invoked, reconnects, last>>
    /\ CASE At(t, "reconnect_printer") ->
              Call(t, "disconnect", "rp_connect") /\ UNCHANGED ret
         [] At(t, "rp_connect") ->
              Call(t, "connect", "rp_connected") /\ UNCHANGED ret
         [] At(t, "rp_connected") ->
              IF ret[t] = "True"
              THEN Call(t, "start_polling", "rp_done") /\ UNCHANGED ret
              ELSE Goto(t, "rp_done") /\ UNCHANGED ret
         [] At(t, "rp_done") ->
              Return(t) /\ UNCHANGED ret
         [] OTHER -> FALSE

StepPolling(t) ==
    \/ InvokePolling(t) \/ ReconnectPrinter(t)
    \/ SendCommand(t) \/ CloseSocket(t) \/ Connect(t) \/ Disconnect(t)
    \/ HandleConnectionError(t) \/ PollStatus(t) \/ PollLoop(t) \/ StartPolling(t)

NextPolling == \E t \in PollingThreads : StepPolling(t)

SpecPolling == InitPolling /\ [][NextPolling]_vars

\* ------------------------------------------- the cycles after a print's end
\* poll_status cycle after cycle on a connected client, once the device
\* answers M27 with "Not SD printing" and M119 without any of the words
\* _parse_status looks for.

\* M119 responses with no explicit state
QuietStatusTexts ==
    {"MachineStatus: READY\r\nok\r\n",
     "Endstop: X-max:0 Y-max:0 Z-max:0\r\nMachineStatus: READY\r\nMoveMode: READY\r\nok\r\n"}

\* the M27 response of a device that prints no file
NotSDPrinting == "Not SD printing\r\nok\r\n"

\* Progress a print can have reached when the device stops reporting it.
LastProgressValues == {0, 1, 45, 99, 100}

\* The states the earlier cycles can have left: connected, with the
\* temperatures of some M105 response, any progress and any status the cycles
\* assign.
FinishedInputs ==
    {[ParseTemperatures(ConnectedState, rt) EXCEPT !.progress = p, !.status = st] :
        rt \in TemperatureTexts, p \in LastProgressValues,
        st \in {"IDLE", "PRINTING", "PAUSED", "COMPLETE", "READY"}}

InitFinished ==
    /\ state \in FinishedInputs
    /\ sock = "open"
    /\ lock = NoThread
    /\ running = FALSE
    /\ poll_thread = NoThread
    /\ callbacks = 0
    /\ pc = [t \in Threads |-> IF t \in Callers THEN <<"idle">> ELSE <<>>]
    /\ cmd = [t \in Threads |-> None]
    /\ resp = [t \in Threads |-> None]
    /\ arg = [t \in Threads |-> NoRequest]
    /\ idx = [t \in Threads |-> 0]
    /\ ret = [t \in Threads |-> IF t \in Callers THEN None ELSE NoObject]
    /\ held = NoObject
    /\ delivered = NoObject
    /\ wire = NoWire
    /\ data = EmptyStore
    /\ sessions = {}
    /\ sent = [t \in Threads |-> <<>>]
    /\ invoked = [t \in Threads |-> <<>>]
    /\ reconnects = [t \in Threads |-> 0]
    /\ last = NoCall

\* One poll cycle of poll_status with these answers.
QuietPollParsed ==
    \E rt \in TemperatureTexts : \E s1 \in {ParseTemperatures(state, rt)} :
    \E rs \in QuietStatusTexts : \E s2 \in {ParseStatus(s1, rs)} :
        /\ state' = ParseProgress(s2, NotSDPrinting)
        /\ last' = [parser |-> "poll", temperatures |-> rt, status |-> rs,
                    progress |-> NotSDPrinting, s0 |-> state, s1 |-> s1, s2 |-> s2]
        /\ UNCHANGED clientVars

NextFinished == QuietPollParsed

\* The worker goes on polling: _poll_loop runs the next cycle after every sleep.
SpecFinished == InitFinished /\ [][NextFinished]_vars /\ WF_vars(NextFinished)

\* ------------------------------------------------ the users and the sessions
\* user_store.py, session_store.py and the handlers of auth.py that use them,
\* with OAuth configured (GOOGLE_CLIENT_ID set).  Each handler runs without an
\* await between its calls on the stores, and each store method holds the
\* store's lock for its whole body.

MaxSessions == 2

\* ADMIN_EMAILS
AdminEmails == {"admin@example.com"}

\* The addresses Google reports and an administrator types: the administrator,
\* one written with a capital, one in lower case.
Emails == {"admin@example.com", "Ann@example.com", "bob@example.com"}

\* x in list
InList(x, list) == \E i \in 1..Len(list) : list[i] = x

\* list.remove(x), x in list: without the first x
Remove(list, x) ==
    LET i == CHOOSE k \in 1..Len(list) : list[k] = x /\ \A j \in 1..(k - 1) : list[j] # x
    IN  SubSeq(list, 1, i - 1) \o SubSeq(list, i + 1, Len(list))

\* user_store.is_approved(email) on the lists d
IsApproved(d, email) ==
    Bind(Lower(email), LAMBDA email_lower :
        email_lower \in AdminEmails \/ InList(email_lower, d.approved))

\* user_store.request_access(email) on the lists d: what it returns and the
\* lists it leaves
RequestAccess(d, email) ==
    Bind(Lower(email), LAMBDA email_lower :
        IF email_lower \in AdminEmails \/ InList(email_lower, d.approved)
        THEN [result |-> "approved", data |-> d]
        ELSE IF InList(email_lower, d.denied)
        THEN [result |-> "denied", data |-> d]
        ELSE IF ~InList(email_lower, d.pending)
        THEN [result |-> "pending",
              data |-> [d EXCEPT !.pending = Append(@, email_lower)]]
        ELSE [result |-> "pending", data |-> d])

\* approve(email) and deny(email), which differ in the list the email goes to;
\* unchecked: the email is moved whether or not it is pending
MoveUnchecked(d, email, to) ==
    Bind(Lower(email), LAMBDA email_lower :
        [result |-> "True",
         data |-> [d EXCEPT ![to] = Append(@, email_lower)]])

\* approve(email) (to = "approved") and deny(email) (to = "denied") on the lists d
Move(d, email, to) ==
    Bind(Lower(email), LAMBDA email_lower :
        IF InList(email_lower, d.pending)
        THEN [result |-> "True",
              data |-> [d EXCEPT !.pending = Remove(@, email_lower),
                                 ![to] = IF InList(email_lower, @) THEN @
                                         ELSE Append(@, email_lower)]]
        ELSE [result |-> "False", data |-> d])

\* The session ids: str(uuid.uuid4()) gives an id never given before, here the
\* next number.  sessions keeps a deleted session with live = FALSE, so that
\* its id is not given again; _sessions is the live ones.
SessionIds == 1..MaxSessions

\* session_store.create_session(email) on the sessions ss
CreateSession(ss, email) ==
    ss \cup {[id |-> Cardinality(ss) + 1, email |-> email, live |-> TRUE,
              expired |-> FALSE]}

\* session_store.get_session(session_id): the session, NoObject for None
GetSession(ss, session_id) ==
    IF \E s \in ss : s.id = session_id /\ s.live /\ ~s.expired
    THEN CHOOSE s \in ss : s.id = session_id
    ELSE NoObject

\* _sessions after get_session(session_id) or delete_session(session_id): an
\* expired session is deleted by the first, any session by the second
WithoutSession(ss, session_id, only_expired) ==
    {IF s.id = session_id /\ (s.expired \/ ~only_expired) THEN [s EXCEPT !.live = FALSE]
     ELSE s : s \in ss}

\* get_current_user(request) with the cookie of session_id: the email of the
\* user it returns, "401" for HTTPException(401)
GetCurrentUserResult(ss, d, session_id) ==
    Bind(GetSession(ss, session_id), LAMBDA session :
        IF session = NoObject THEN "401" ELSE session.email)

\* the printer client, which the stores and these handlers leave alone
printerVars == <<state, sock, lock, running, poll_thread, callbacks, pc, cmd, resp, arg,
                 idx, ret, held, delivered, wire, sent, invoked, reconnects>>

InitAuth == Init

\* handle_callback(request) after Google reported email
HandleCallback ==
    \E email \in Emails : \E r \in {RequestAccess(data, email)} :
        /\ r.result # "denied" => Cardinality(sessions) < MaxSessions
        /\ data' = r.data
        /\ sessions' = IF r.result = "denied" THEN sessions
                       ELSE CreateSession(sessions, email)
        /\ last' = [parser |-> "auth", op |-> "handle_callback", email |-> email,
                    session |-> 0, result |-> r.result, before |-> data]
        /\ UNCHANGED printerVars

\* user_store.approve(email), from approve_user
Approve ==
    \E email \in Emails : \E r \in {Move(data, email, "approved")} :
        /\ data' = r.data
        /\ last' = [parser |-> "auth", op |-> "approve", email |-> email,
                    session |-> 0, result |-> r.result, before |-> data]
        /\ UNCHANGED <<sessions, printerVars>>

\* user_store.deny(email), from deny_user
Deny ==
    \E email \in Emails : \E r \in {Move(data, email, "denied")} :
        /\ data' = r.data
        /\ last' = [parser |-> "auth", op |-> "deny", email |-> email,
                    session |-> 0, result |-> r.result, before |-> data]
        /\ UNCHANGED <<sessions, printerVars>>

\* get_current_user(request), the cookie being the signed id of any session
\* ever made
GetCurrentUser ==
    \E session_id \in SessionIds :
        /\ sessions' = WithoutSession(sessions, session_id, TRUE)
        /\ last' = [parser |-> "auth", op |-> "get_current_user", email |-> "",
                    session |-> session_id,
                    result |-> GetCurrentUserResult(sessions, data, session_id),
                    before |-> data]
        /\ UNCHANGED <<data, printerVars>>

\* handle_logout(request)
HandleLogout ==
    \E session_id \in SessionIds :
        /\ sessions' = WithoutSession(sessions, session_id, FALSE)
        /\ last' = [parser |-> "auth", op |-> "handle_logout", email |-> "",
                    session |-> session_id, result |-> "", before |-> data]
        /\ UNCHANGED <<data, printerVars>>

\* datetime.utcnow() passes the expires_at of a session
SessionExpires ==
    \E s \in sessions :
        /\ s.live /\ ~s.expired
        /\ sessions' = (sessions \ {s}) \cup {[s EXCEPT !.expired = TRUE]}
        /\ UNCHANGED <<data, last, printerVars>>

NextAuth ==
    \/ HandleCallback \/ Approve \/ Deny \/ GetCurrentUser \/ HandleLogout
    \/ SessionExpires

SpecAuth == InitAuth /\ [][NextAuth]_vars

\* ------------------------------------------------------------------ claims

\* Positions at which a thread waits for self._lock.
LockEntries ==
    {"connect", "close_socket", "poll_status", "control_command", "start_print",
     "upload_file"}
WaitsForLock(t) == \E l \in LockEntries : At(t, l)
\* t is somewhere below the position l of its stack
Inside(t, l) == \E i \in 1..Len(pc[t]) : pc[t][i] = l

\* C1: whenever the client lock is not held, connected = false implies
\* status = DISCONNECTED.
C1_DisconnectedStatus ==
    lock = NoThread => (~state.connected => state.status = "DISCONNECTED")

\* C1 witness: a client that was connected and polled has been disconnected and
\* the lock is free again.
C1_Witness ==
    /\ lock = NoThread
    /\ ~state.connected
    /\ state.status = "DISCONNECTED"
    /\ state.nozzle_target = 200
    /\ sock = None

\* C2: a connect() that fails (the TCP connect raised, or the handshake was not
\* acknowledged) closes the socket, leaves the state disconnected and returns
\* False to its caller.
C2_FailedConnectReturnsFalse ==
    \A t \in Callers :
        Inside(t, "connect_failed")
            ~> (At(t, "idle") /\ ret[t] = "False" /\ sock = None
                /\ ~state.connected /\ state.status = "DISCONNECTED")

\* C3: after a transport error in the temperature or status round trip of a poll
\* cycle, the cycle closes the socket, makes exactly one reconnect attempt and
\* ends either connected with status IDLE (the attempt succeeded) or not
\* connected with status DISCONNECTED (it failed).
C3_PollErrorReconnectsOnce ==
    \A w \in Workers :
        Inside(w, "handle_connection_error")
            ~> /\ At(w, "loop_callbacks")
               /\ reconnects[w] = 1
               /\ \/ state.connected /\ state.status = "IDLE"
                  \/ ~state.connected /\ state.status = "DISCONNECTED"

\* C4: no reachable state has a thread blocked forever waiting for the client
\* lock: a thread waits for the lock only while its holder can still release
\* it, that is, while the holder is not itself waiting for the lock.
C4_NoThreadBlockedForever ==
    \A t \in Threads :
        WaitsForLock(t) /\ lock # NoThread => ~WaitsForLock(lock)

\* Threads inside _send_command, a command written and its response awaited.
InExchange == {t \in Threads : At(t, "send_command")}
\* Positions of the operations of several commands, from the first command on.
MultiStepPositions ==
    {"poll_temperatures", "poll_state", "poll_progress",
     "print_selected", "print_started",
     "upload_begun", "upload_lines", "upload_ended"}
MidOperation(t) == \E l \in MultiStepPositions : Inside(t, l)

\* C5: at most one command/response exchange is in flight at any time, and
\* while a thread is between the commands of one multi-step operation (a poll
\* cycle, start_print, upload_file) no other thread is inside _send_command.
C5_OneExchangeInFlight ==
    /\ Cardinality(InExchange) <= 1
    /\ \A t \in Threads : \A u \in Threads \ {t} :
          MidOperation(t) => u \notin InExchange

\* C5 witness: the worker awaits the answer to the status query of its poll
\* cycle while a request thread waits with a command of its own.
C5_Witness ==
    \E w \in Workers : \E t \in Callers :
        /\ At(w, "send_command") /\ cmd[w] = "~M119"
        /\ At(t, "control_command") \/ At(t, "start_print") \/ At(t, "upload_file")

\* C6: a value returned by get_state() is never changed by a later poll cycle,
\* connect, disconnect or control command.
C6_GetStateSnapshotStable ==
    [][held.kind # "none" /\ held' = held => Deref(held)' = Deref(held)]_vars

\* C7: the object an observer callback received in a poll cycle shows no
\* mutation made by a later poll cycle or command.
C7_ObserverSnapshotStable ==
    [][delivered.kind # "none" /\ delivered' = delivered
          => Deref(delivered)' = Deref(delivered)]_vars

\* C8: every read and every write of a PrinterState field, by the polling worker
\* or by a request thread (the serving layer's connected check included), happens
\* while the thread holds the client lock.
C8_StateAccessUnderLock ==
    [][\A t \in Threads :
          Serve(t) \/ CloseSocket(t) \/ Connect(t) \/ PollStatus(t)
              => lock = t \/ lock' = t]_vars

\* The status an explicit keyword of a status response stands for, None without
\* one: printing, paused, complete or finished, error, in that order.
ExplicitKeyword(text) ==
    LET l == Lower(text)
    IN  CASE Contains(l, "printing") -> "PRINTING"
          [] ~Contains(l, "printing") /\ Contains(l, "paused") -> "PAUSED"
          [] /\ ~Contains(l, "printing") /\ ~Contains(l, "paused")
             /\ (Contains(l, "complete") \/ Contains(l, "finished")) -> "COMPLETE"
          [] /\ ~Contains(l, "printing") /\ ~Contains(l, "paused")
             /\ ~Contains(l, "complete") /\ ~Contains(l, "finished")
             /\ Contains(l, "error") -> "ERROR"
          [] OTHER -> None

\* C9 as claimed: whenever 0 < progress < 100 when a status response is
\* processed, the resulting status is PRINTING, even if the response holds an
\* explicit keyword.
C9_ProgressBeforeKeyword ==
    last.parser = "poll" /\ last.s1.progress > 0 /\ last.s1.progress < 100
        => last.s2.status = "PRINTING"

\* C9 as amended: the explicit keyword comes first. A status response with an
\* explicit keyword yields that keyword's status whatever the progress; a
\* response without one, processed while 0 < progress < 100 on a connected
\* client, yields PRINTING.
C9_KeywordBeforeProgress ==
    last.parser = "poll"
        => IF ExplicitKeyword(last.status) # None
           THEN last.s2.status = ExplicitKeyword(last.status)
           ELSE (last.s1.progress > 0 /\ last.s1.progress < 100
                    => last.s2.status = "PRINTING")

\* C9 witness: a response saying PAUSED is processed at progress 45 and the
\* status is PAUSED.
C9_Witness ==
    /\ last.parser = "poll"
    /\ ExplicitKeyword(last.status) = "PAUSED"
    /\ last.s1.progress = 45
    /\ last.s2.status = "PAUSED"

\* C10: when the progress response is "Not SD printing" and the status is
\* neither PRINTING nor PAUSED, processing the response resets progress to 0.
C10_NotSDPrintingResetsProgress ==
    /\ last.parser = "poll"
    /\ Contains(last.progress, "Not SD printing")
    /\ last.s2.status \notin {"PRINTING", "PAUSED"}
    => state.progress = 0

\* C11 as claimed: with nozzle 205/200 and bed 61/60, progress outside 1..99 and
\* no explicit keyword in the status response, the inferred status is READY.
C11_ReadyAt205 ==
    /\ last.parser = "poll"
    /\ last.temperatures = "T0:205/200 B:61/60\r\nok\r\n"
    /\ ExplicitKeyword(last.status) = None
    /\ ~(last.s1.progress > 0 /\ last.s1.progress < 100)
    => last.s2.status = "READY"

\* C11 as amended: with nozzle 205/200 and bed 61/60, progress outside 1..99 and
\* no explicit keyword in the status response, the inferred status is COOLING:
\* the nozzle is 5 degrees above its target, more than the tolerance of 3, and
\* above 40.
C11_CoolingAt205 ==
    /\ last.parser = "poll"
    /\ last.temperatures = "T0:205/200 B:61/60\r\nok\r\n"
    /\ ExplicitKeyword(last.status) = None
    /\ ~(last.s1.progress > 0 /\ last.s1.progress < 100)
    => last.s2.status = "COOLING"

\* C11 witness: the poll cycle read 205/200 and 61/60 at progress 0, the status
\* response had no keyword, and the status is COOLING.
C11_Witness ==
    /\ last.parser = "poll"
    /\ last.s1.nozzle_temp = 205 /\ last.s1.nozzle_target = 200
    /\ last.s1.bed_temp = 61 /\ last.s1.bed_target = 60
    /\ last.s1.progress = 0
    /\ ExplicitKeyword(last.status) = None
    /\ last.s2.status = "COOLING"

\* The status the specified decision list gives for the temperatures of st, with
\* targetSet = target > 30 and delta = target - current.
SpecifiedThermalStatus(st) ==
    LET nSet == st.nozzle_target > 30
        bSet == st.bed_target > 30
        nDelta == st.nozzle_target - st.nozzle_temp
        bDelta == st.bed_target - st.bed_temp
    IN  CASE nSet /\ bSet /\ nDelta > 10 /\ bDelta > 10 -> "PREHEATING"
          [] OTHER ->
        CASE (nSet /\ nDelta > 3) \/ (bSet /\ bDelta > 3) -> "HEATING"
          [] OTHER ->
        CASE /\ nSet \/ bSet
             /\ nSet => (nDelta <= 3 /\ nDelta >= -3)
             /\ bSet => (bDelta <= 3 /\ bDelta >= -3) -> "READY"
          [] OTHER ->
        CASE \/ st.nozzle_temp > st.nozzle_target + 3 /\ st.nozzle_temp > 40
             \/ st.bed_temp > st.bed_target + 3 /\ st.bed_temp > 40 -> "COOLING"
          [] OTHER -> "IDLE"

\* A status response without an explicit keyword was processed on a connected
\* client.
Inferred ==
    /\ last.parser = "status"
    /\ last.s0.connected
    /\ ExplicitKeyword(last.status) = None

\* C13: for every combination of nozzle and bed temperatures and targets, with
\* progress outside 1..99 and no explicit keyword, the status is the one the
\* specified decision list gives (PREHEATING, HEATING, READY, COOLING, IDLE).
C13_ThermalDecisionList ==
    Inferred /\ ~(last.s0.progress > 0 /\ last.s0.progress < 100)
        => state.status = SpecifiedThermalStatus(last.s0)

\* C13 witness: nozzle 49/60 and bed 49/60 (both 11 below target) at progress 0
\* gave PREHEATING.
C13_Witness ==
    /\ Inferred
    /\ last.s0.nozzle_temp = 49 /\ last.s0.nozzle_target = 60
    /\ last.s0.bed_temp = 49 /\ last.s0.bed_target = 60
    /\ last.s0.progress = 0
    /\ state.status = "PREHEATING"

\* C14: for 0 < progress < 100 and any temperatures and targets, a status
\* response without an explicit keyword processed on a connected client yields
\* PRINTING.
C14_ProgressOverridesThermal ==
    Inferred /\ last.s0.progress > 0 /\ last.s0.progress < 100
        => state.status = "PRINTING"

\* C14 witness: at progress 45 with both heaters 11 below target (PREHEATING by
\* the temperatures) the status is PRINTING.
C14_Witness ==
    /\ Inferred
    /\ last.s0.progress = 45
    /\ SpecifiedThermalStatus(last.s0) = "PREHEATING"
    /\ state.status = "PRINTING"

\* C19: a status response maps the first of the keywords printing, paused,
\* complete or finished, error it holds, in any case, to PRINTING, PAUSED,
\* COMPLETE, ERROR; without a keyword the status becomes the inferred one on a
\* connected client and stays as it was on a client that is not connected.
C19_KeywordMapping ==
    last.parser = "status"
        => state.status =
              IF ExplicitKeyword(last.status) # None THEN ExplicitKeyword(last.status)
              ELSE IF last.s0.connected THEN DetermineThermalStatus(last.s0)
              ELSE last.s0.status

\* C19 witness: a response with the keyword in capitals, PAUSED, on a connected
\* client gave PAUSED.
C19_Witness ==
    /\ last.parser = "status"
    /\ last.s0.connected
    /\ last.status = "MachineStatus: PAUSED\r\nok\r\n"
    /\ state.status = "PAUSED"

\* C12: in every reachable state 0 <= progress <= 100, whatever progress
\* responses the device sent (a count past the total, a zero total, malformed
\* text).
C12_ProgressInRange == state.progress >= 0 /\ state.progress <= 100

\* C15: for a response "SD printing byte <current>/<total>" with
\* 0 <= current <= total and total > 0, progress is set to current/total*100
\* rounded to the nearest whole number.
C15_ProgressRounded ==
    /\ last.parser = "progress"
    /\ Len(last.bytes) = 2
    /\ 0 <= last.bytes[1] /\ last.bytes[1] <= last.bytes[2] /\ last.bytes[2] > 0
    => state.progress = PercentRounded(last.bytes[1], last.bytes[2])

\* C16: when the progress response says "Not SD printing" (or "not printing" in
\* any form) and the status is PRINTING or PAUSED, progress is left as it was.
C16_NotPrintingKeepsProgress ==
    /\ last.parser = "progress"
    /\ Contains(Lower(last.progress), "not")
    /\ Contains(Lower(last.progress), "printing")
    /\ last.s0.status \in {"PRINTING", "PAUSED"}
    => state.progress = last.s0.progress

\* C16 witness: "Not SD printing" arrived at status PAUSED and progress 45, and
\* progress is still 45.
C16_Witness ==
    /\ last.parser = "progress"
    /\ last.progress = "Not SD printing\r\nok\r\n"
    /\ last.s0.status = "PAUSED"
    /\ last.s0.progress = 45
    /\ state.progress = 45

\* C17: a heater's current and target fields change only when that heater's
\* fragment of the temperature response parses completely; with the fragment
\* missing or malformed neither field of the heater changes.
C17_BrokenFragmentKeepsFields ==
    last.parser = "temperatures"
        => /\ ~last.nozzle => /\ state.nozzle_temp = last.s0.nozzle_temp
                              /\ state.nozzle_target = last.s0.nozzle_target
           /\ ~last.bed => /\ state.bed_temp = last.s0.bed_temp
                           /\ state.bed_target = last.s0.bed_target

\* C18: a temperature response "T0:<a>/<b> B:<c>/<d>" with numbers a, b, c, d
\* sets nozzle_temp = a, nozzle_target = b, bed_temp = c, bed_target = d and
\* changes no other field of the state.
C18_FourFieldsSet ==
    last.parser = "temperatures" /\ Len(last.values) = 4
        => state = [last.s0 EXCEPT !.nozzle_temp = last.values[1],
                                   !.nozzle_target = last.values[2],
                                   !.bed_temp = last.values[3],
                                   !.bed_target = last.values[4]]

\* C18 witness: "T0:205/200 B:61/60" was parsed on a printing client that read
\* 210/210 and 55/55 before, and the four fields are 205, 200, 61, 60.
C18_Witness ==
    /\ last.parser = "temperatures"
    /\ last.values = <<205, 200, 61, 60>>
    /\ last.s0.nozzle_temp = 210 /\ last.s0.bed_target = 55
    /\ state.nozzle_temp = 205 /\ state.nozzle_target = 200
    /\ state.bed_temp = 61 /\ state.bed_target = 60
    /\ state.status = "PRINTING" /\ state.progress = 45

\* The handshake response of the connect() thread t runs holds the success
\* token "ok" in some case.
HandshakeSucceeded(t) == sock = "open" /\ Contains(Lower(resp[t]), "ok")

\* C20: connect() returns True with connected = true and status = IDLE exactly
\* when the TCP connection opened and the handshake response holds "ok" in any
\* case, and connected becomes true by no other step than such a handshake.
C20_ConnectedOnlyByHandshake ==
    [][/\ ~state.connected /\ state'.connected
            => \E t \in Threads : /\ At(t, "connect_handshake")
                                  /\ HandshakeSucceeded(t)
                                  /\ At(t, "connect_status")'
       /\ \A t \in Threads :
            /\ At(t, "connect_handshake") /\ ~At(t, "connect_handshake")'
                  => IF HandshakeSucceeded(t)
                     THEN At(t, "connect_status")' /\ state'.connected
                     ELSE Inside(t, "connect_failed")' /\ state' = state
            /\ At(t, "connect_status") /\ ~At(t, "connect_status")'
                  => /\ ret'[t] = "True"
                     /\ state'.connected /\ state'.status = "IDLE"
            /\ Inside(t, "connect_failed")' => ret'[t] # "True"]_vars

\* C20 witness: the handshake was answered "OK" in capitals and the connect()
\* call goes on to return True on a connected client.
C20_Witness ==
    \E t \in Callers :
        /\ At(t, "connect_status")
        /\ resp[t] = "Control Success.\r\nOK\r\n"
        /\ state.connected

\* ------------------------------------------------- disconnect and the worker

\* The socket is closed and the state says so.
Disconnected == sock = None /\ ~state.connected /\ state.status = "DISCONNECTED"
\* t is somewhere in disconnect()
InDisconnect(t) == At(t, "disconnect") \/ At(t, "disc_join") \/ Inside(t, "disc_done")

\* C21: the _close_socket of a disconnect() leaves the socket closed,
\* connected = false and status = DISCONNECTED, and disconnect() returns without
\* touching them again; no step of a disconnect() called on a client that is
\* already disconnected and not polling (disconnected before, or never
\* connected) changes the client's state.
C21_DisconnectIdempotent ==
    [][\A t \in Threads :
         /\ Inside(t, "disc_done") /\ At(t, "cs_status") /\ ~At(t, "cs_status")'
               => Disconnected'
         /\ At(t, "disc_done") /\ ~At(t, "disc_done")'
               => state' = state /\ sock' = sock /\ ret'[t] = None
         /\ InDisconnect(t) /\ pc'[t] # pc[t] /\ Disconnected /\ ~running
               => /\ state' = state /\ sock' = sock /\ running' = running
                  /\ poll_thread' = poll_thread /\ callbacks' = callbacks]_vars

\* C21 witness: a client that was connected, polled and disconnected (its worker
\* has ended) is in a second disconnect(), before that call's _close_socket.
C21_Witness ==
    \E t \in Callers :
        /\ At(t, "disc_join")
        /\ Disconnected /\ ~running
        /\ state.nozzle_target = 200
        /\ poll_thread # NoThread /\ pc[poll_thread] = <<>>

\* The thread disconnect() joined is no longer alive (or there was none).
WorkerEnded == poll_thread = NoThread \/ pc[poll_thread] = <<>>

\* C22: when disconnect() returns, the polling worker has ended, or the call
\* reports that the worker outlived the join (it returns something other than
\* its normal None): it never returns normally while the worker is alive.
C22_DisconnectNeverLeavesWorker ==
    [][\A t \in Threads :
         At(t, "disc_done") /\ ~At(t, "disc_done")'
            => WorkerEnded' \/ ret'[t] # None]_vars

\* C23: start_polling() called while _running is true returns at once: it
\* starts no worker and changes nothing of the client.
C23_StartPollingIdempotent ==
    [][\A t \in Threads :
         At(t, "start_polling") /\ running /\ pc'[t] # pc[t]
            => /\ pc'[t] = Tail(pc[t])
               /\ \A w \in Workers : pc'[w] = pc[w]
               /\ running' = running /\ poll_thread' = poll_thread
               /\ state' = state /\ sock' = sock /\ lock' = lock
               /\ callbacks' = callbacks]_vars

\* C23 witness: start_polling() has been called on a connected client whose
\* worker is alive and polling.
C23_Witness ==
    \E t \in Callers :
        /\ At(t, "start_polling") /\ running
        /\ state.connected
        /\ poll_thread # NoThread /\ pc[poll_thread] # <<>>

\* ------------------------------------------------- the observers

\* How many times worker w has called observer i in its running poll cycle.
TimesInvoked(w, i) ==
    Cardinality({k \in 1..Len(invoked[w]) : invoked[w][k].observer = i})

RoundTripPositions == {"poll_temperatures", "poll_state", "poll_progress"}

\* C25: when a round trip of a poll cycle (temperature, status or progress)
\* ends in a transport failure (_send_command returned None), the cycle's next
\* step enters _handle_connection_error, the reconnection path.
C25_IOFailureReconnects ==
    [][\A t \in Threads : \A l \in RoundTripPositions :
         At(t, l) /\ resp[t] = None /\ pc'[t] # pc[t]
            => At(t, "handle_connection_error")']_vars

\* ------------------------------------------------- uploads and prints

\* The lines of a file upload_file has to send, from line i on: each line
\* without its surrounding blanks, the empty ones and the full-line comments
\* left out, each with the line terminator.
RECURSIVE ContentLinesFrom(_, _)
ContentLinesFrom(lines, i) ==
    IF i > Len(lines) THEN <<>>
    ELSE Bind(Strip(lines[i]), LAMBDA line :
            (IF line = "" \/ SubSeq(line, 1, 1) = ";"
             THEN <<>> ELSE <<line \o "\r\n">>)
            \o ContentLinesFrom(lines, i + 1))

\* What a whole upload writes: begin-write, the content lines, end-write.
WholeUpload(content) ==
    <<"~M28 " \o FileName \o "\r\n">>
    \o ContentLinesFrom(Split(content, "\n"), 1)
    \o <<"~M29\r\n">>

\* C26: an upload_file whose begin-write is not acknowledged returns False
\* having written at most the begin-write command; one whose begin-write is
\* acknowledged has written, when it returns, begin-write, every non-empty
\* non-comment line in file order and end-write, and returns True exactly when
\* the response to end-write holds the acknowledgment, whatever the content
\* lines were answered.
C26_UploadGatedByBeginWrite ==
    [][\A t \in Threads :
         /\ At(t, "upload_begun") /\ ~Acked(resp[t]) /\ pc'[t] # pc[t]
               => /\ pc'[t] = Tail(pc[t]) /\ ret'[t] = "False"
                  /\ sent[t] \in {<<>>, <<"~M28 " \o FileName \o "\r\n">>}
         /\ At(t, "upload_begun") /\ Acked(resp[t]) /\ pc'[t] # pc[t]
               => At(t, "upload_lines")' /\ sent'[t] = sent[t]
         /\ At(t, "upload_ended") /\ pc'[t] # pc[t]
               => /\ pc'[t] = Tail(pc[t])
                  /\ sent[t] = WholeUpload(arg[t].content)
                  /\ ret'[t] = (IF Acked(resp[t]) THEN "True" ELSE "False")
         /\ (At(t, "upload_lines") \/ At(t, "upload_ended"))
               => /\ Len(sent[t]) >= 1
                  /\ sent[t] = SubSeq(WholeUpload(arg[t].content), 1, Len(sent[t]))]_vars

\* C26 witness: an upload of a file with a comment, an empty line and two
\* commands has written all four of its lines and end-write is acknowledged.
C26_Witness ==
    \E t \in Callers :
        /\ At(t, "upload_ended")
        /\ Acked(resp[t])
        /\ sent[t] = <<"~M28 a.gcode\r\n", "G28\r\n", "G1 X5\r\n", "~M29\r\n">>

\* C27: start_print writes the start-print command only from the point after
\* select-file, with the select response acknowledged; with select not
\* acknowledged it returns False having written nothing after select-file; and
\* it returns True exactly when the start response, which it has only after an
\* acknowledged select, is acknowledged too.
C27_StartPrintGatedBySelect ==
    [][\A t \in Threads :
         /\ At(t, "print_selected") /\ pc'[t] # pc[t]
               => IF Acked(resp[t])
                  THEN /\ sent'[t] = <<"~M23 " \o FileName \o "\r\n", "~M24\r\n">>
                       /\ Inside(t, "print_started")'
                  ELSE /\ pc'[t] = Tail(pc[t]) /\ ret'[t] = "False"
                       /\ sent[t] \in {<<>>, <<"~M23 " \o FileName \o "\r\n">>}
         /\ ~Inside(t, "print_started") /\ Inside(t, "print_started")'
               => At(t, "print_selected") /\ Acked(resp[t])
         /\ At(t, "print_started") /\ pc'[t] # pc[t]
               => /\ pc'[t] = Tail(pc[t])
                  /\ sent[t] = <<"~M23 " \o FileName \o "\r\n", "~M24\r\n">>
                  /\ ret'[t] = (IF Acked(resp[t]) THEN "True" ELSE "False")]_vars

\* C27 witness: select-file was acknowledged, start-print was written and its
\* response holds no acknowledgment.
C27_Witness ==
    \E t \in Callers :
        /\ At(t, "print_started")
        /\ sent[t] = <<"~M23 a.gcode\r\n", "~M24\r\n">>
        /\ resp[t] = ""

\* ------------------------------------------------- the single-command operations

\* The positions where the operations of one command have their response.
SingleCommandReturns ==
    {"control_done", "led_toggled", "nozzle_temp_set", "bed_temp_set", "file_deleted"}

\* C28: each operation of one command returns, without raising, True when the
\* response to its command holds "ok" (in any case) and False otherwise, having
\* written at most that one command; with no socket open it has written
\* nothing, returns False and leaves PrinterState as it was.
C28_SingleCommandResult ==
    [][\A t \in Threads : \A l \in SingleCommandReturns :
         At(t, l) /\ pc'[t] # pc[t]
            => /\ pc'[t] = Tail(pc[t])
               /\ ret'[t] = (IF resp[t] # None /\ Contains(Lower(resp[t]), "ok")
                             THEN "True" ELSE "False")
               /\ Len(sent[t]) <= 1
               /\ sock = None
                     => sent[t] = <<>> /\ ret'[t] = "False" /\ state' = state]_vars

\* C28 witness: set_nozzle_temp(210) was called on a client that was
\* disconnected after a poll; with no socket nothing was written and there is
\* no response.
C28_Witness ==
    \E t \in Callers :
        /\ At(t, "nozzle_temp_set")
        /\ arg[t].temperature = 210
        /\ sock = None /\ sent[t] = <<>> /\ resp[t] = None
        /\ state.nozzle_target = 200

\* ------------------------------------------------- the serving layer

\* C29: a control or file request (control command, print, upload to the
\* printer) handled while the client is not connected is answered at once with
\* a failure (503 or success false), never with success, and nothing is
\* written to the device.
C29_NotConnectedIsFailure ==
    [][\A t \in Threads :
         At(t, "serve") /\ ~state.connected /\ pc'[t] # pc[t]
            => /\ pc'[t] = Tail(pc[t])
               /\ ret'[t] \in {"503", "False"}
               /\ sent'[t] = <<>>]_vars

\* ------------------------------------------------- the read loop

\* The text holds the success terminator or the error marker.
Marked(text) == Contains(text, "ok\r\n") \/ Contains(text, "Error")

RECURSIVE Received(_, _)
\* The first k chunks of a stream, joined.
Received(events, k) == IF k = 0 THEN "" ELSE Received(events, k - 1) \o events[k]

\* C30: _send_command writes the command with "\r\n" once and nothing else;
\* it goes on reading only while what it has accumulated holds neither
\* "ok\r\n" nor "Error" and returns the accumulated text as soon as it holds
\* one; and when a recv times out before that, it returns the text accumulated
\* so far, empty or not, and not None.
C30_ReadsUntilMarkerOrTimeout ==
    [][\A t \in Threads :
         /\ At(t, "send_sendall") /\ sock # None /\ pc'[t] # pc[t]
               => sent'[t] = <<cmd[t] \o "\r\n">>
         /\ At(t, "send_recv")
               => /\ sent[t] = <<cmd[t] \o "\r\n">> /\ sent'[t] = sent[t]
                  /\ resp[t] = Received(last.events, idx[t])
                  /\ ~Marked(resp[t])
         /\ At(t, "send_recv") /\ pc'[t] # pc[t]
               => LET n == idx'[t]
                      event == last.events[n]
                  IN  /\ event = Timeout
                            => /\ ret'[t] = Decode(Received(last.events, n - 1))
                               /\ ret'[t] # None
                      /\ event \notin {Timeout, SocketError, Closed}
                            => /\ Marked(Received(last.events, n))
                               /\ ret'[t] = Decode(Received(last.events, n))]_vars

\* C30 witness: the device sent one line without the terminator, the second
\* recv timed out, and _send_command has returned that line.
C30_Witness ==
    \E t \in Callers :
        /\ At(t, "idle")
        /\ last.parser = "send_command"
        /\ idx[t] = 2 /\ last.events[1] = "Received.\r\n" /\ last.events[2] = Timeout
        /\ ret[t] = "Received.\r\n"
        /\ sent[t] = <<"~M105\r\n">>

\* ------------------------------------------------- command and response

\* C31: the text _send_command returns for a command holds only bytes the
\* device sent in reply to that command: when it returns, every chunk it has
\* read was a chunk of the reply to the command it wrote.
C31_ResponseOfItsCommand ==
    [][\A t \in Threads :
         At(t, "send_command") /\ ~At(t, "send_command")'
            => wire'.read_from \subseteq {cmd[t]}]_vars

\* ---------------------------------------------------------- the time strings

\* the amount a unit of a duration text stands for
Amount(unit) == IF unit = <<>> THEN 0 ELSE unit[1]

\* C32: for every non-negative number of seconds n, parsing the text that
\* _format_time makes of n gives n again (5400 <-> "01:30:00"), and a duration
\* text with day, hour, minute and second units parses to
\* d * 86400 + h * 3600 + m * 60 + s.
C32_TimeRoundTrip ==
    last.parser = "time" =>
        /\ last.kind = "clock" => last.parsed = last.seconds
        /\ last.kind = "units" =>
               last.parsed = Amount(last.units[1]) * 86400 + Amount(last.units[2]) * 3600
                                + Amount(last.units[3]) * 60 + Amount(last.units[4])

C32_Witness ==
    /\ last.parser = "time"
    /\ last.kind = "clock"
    /\ last.text = "01:30:00"
    /\ last.parsed = 5400

\* ------------------------------------------------------- the polling workers

\* the workers inside the body of _poll_loop's while loop: in poll_status or
\* calling the observers
InCycle == {w \in (DOMAIN pc) \ Callers : Len(pc[w]) > 0 /\ ~At(w, "poll_loop")}

\* C33: at most one polling worker executes the poll loop at any moment, across
\* every interleaving of start_polling, disconnect and connect, a manual
\* reconnect while the previous worker sleeps between cycles included.
C33_OnePollingWorker == Cardinality(InCycle) <= 1

\* ---------------------------------------------------------- the print's end

\* C34: once every progress query is answered "Not SD printing" and every
\* status query without an explicit state, the poll cycles eventually reach a
\* state with progress 0 and a status other than PRINTING: a finished print
\* does not stay PRINTING for ever.
C34_FinishedPrintLeavesPrinting ==
    <>(state.progress = 0 /\ state.status # "PRINTING")

\* ------------------------------------------------------ the delivered status

\* C35: at the end of a poll cycle whose status response named no state, the
\* status of the state handed to the observers is the one the inference gives
\* for the temperatures and the progress of that same state; 0 < progress < 100
\* then means PRINTING.
C35_DeliveredStatusIsInferred ==
    last.parser = "poll" /\ ExplicitKeyword(last.status) = None
        => state.status = DetermineThermalStatus(state)

\* ----------------------------------------------------- the users' sessions

\* C36: with OAuth configured, get_current_user authorises a request only if
\* the email of its session is approved now (an administrator's, or in the
\* approved list): a user whose request is pending, or was denied after the
\* pending session was made, is never authorised.
C36_OnlyApprovedAuthorised ==
    last.parser = "auth" /\ last.op = "get_current_user" /\ last.result # "401"
        => IsApproved(data, last.result)

\* ------------------------------------------------------------ the user store

\* the three lists of d one after the other
AllListed(d) == d.approved \o d.pending \o d.denied

\* no email is in two lists of d or twice in one
ListedOnce(d) ==
    \A i, j \in 1..Len(AllListed(d)) : i # j => AllListed(d)[i] # AllListed(d)[j]

\* C40: from an empty store, after any request_access, approve and deny, every
\* email is in at most one of the approved, pending and denied lists, once;
\* approve and deny return True only for an email that was pending; an email
\* enters the approved or the denied list from the pending one only and never
\* leaves it.
C40_UserStoreLists ==
    /\ ListedOnce(data)
    /\ last.parser = "auth" =>
          /\ last.op \in {"approve", "deny"} /\ last.result = "True"
                => InList(Lower(last.email), last.before.pending)
          /\ \A to \in {"approved", "denied"} : \A e \in {Lower(m) : m \in Emails} :
                /\ InList(e, last.before[to]) => InList(e, data[to])
                /\ InList(e, data[to]) /\ ~InList(e, last.before[to])
                      => InList(e, last.before.pending)

C40_Witness ==
    /\ last.parser = "auth"
    /\ last.op = "approve"
    /\ last.email = "Ann@example.com"
    /\ last.result = "True"
    /\ data.approved = <<"ann@example.com">>
    /\ data.pending = <<"bob@example.com">>

\* ------------------------------------------------------- the error responses

\* C37: a command is reported as successful only if the device acknowledged
\* it: an operation whose response holds "Error" never returns True.
C37_ErrorIsNeverSuccess ==
    [][\A t \in Threads : \A l \in SingleCommandReturns :
         At(t, l) /\ pc'[t] # pc[t] /\ resp[t] # None /\ Contains(resp[t], "Error")
            => ret'[t] # "True"]_vars

\* ------------------------------------------------------------- the setters

\* v brought into lo..hi
Clamped(v, lo, hi) == IF v < lo THEN lo ELSE IF v > hi THEN hi ELSE v

\* the PrinterState a setter called with request r leaves when its command was
\* acknowledged
StateAfterSetter(st, r) ==
    CASE r.op = "toggle_led" -> [st EXCEPT !.led_on = r.on]
      [] r.op = "set_nozzle_temp" ->
            [st EXCEPT !.nozzle_target = Clamped(r.temperature, 0, 300)]
      [] r.op = "set_bed_temp" ->
            [st EXCEPT !.bed_target = Clamped(r.temperature, 0, 120)]

\* C38: set_nozzle_temp, set_bed_temp and toggle_led change nozzle_target,
\* bed_target and led_on only when the device acknowledged the command, to the
\* value asked for brought into 0..300 and 0..120; without the acknowledgment
\* the field stays, and no other field of PrinterState changes in any case.
C38_SettersOnlyOnAcknowledgment ==
    [][\A t \in Threads :
         arg[t].op \in {"toggle_led", "set_nozzle_temp", "set_bed_temp"}
            => state' =
                  IF /\ \E l \in {"led_toggled", "nozzle_temp_set", "bed_temp_set"} : At(t, l)
                     /\ pc'[t] # pc[t]
                     /\ resp[t] # None /\ Contains(Lower(resp[t]), "ok")
                  THEN StateAfterSetter(state, arg[t])
                  ELSE state]_vars

\* C38 witness: set_nozzle_temp(350) was acknowledged on a connected client
\* without a target; the target is now 300 and nothing else changed.
C38_Witness ==
    \E t \in Callers :
        /\ At(t, "idle") /\ ret[t] = "True"
        /\ state = [ConnectedState EXCEPT !.nozzle_target = 300]

\* ------------------------------------------------- the disconnected client

\* connect() called by _handle_connection_error, not by a request
InReconnect(t) == \E i \in 1..Len(pc[t]) : pc[t][i] = "hce_done"

\* C39: a poll cycle on a client whose connected flag is false sends no
\* command, makes no reconnect attempt and leaves every field of PrinterState
\* as it was; the flag becomes true again by a connect() that a request called,
\* never by a poll cycle.
C39_DisconnectedCycleDoesNothing ==
    [][\A t \in Threads :
         /\ At(t, "poll_status") /\ ~state.connected /\ pc'[t] # pc[t]
               => /\ pc'[t] = <<"poll_return">> \o Tail(pc[t])
                  /\ state' = state /\ sock' = sock
                  /\ sent'[t] = <<>> /\ reconnects'[t] = 0
         /\ At(t, "poll_return") /\ ~state.connected /\ pc'[t] # pc[t]
               => /\ state' = state /\ sock' = sock
                  /\ sent[t] = <<>> /\ reconnects[t] = 0
         /\ ~state.connected /\ state'.connected /\ pc'[t] # pc[t]
               => At(t, "connect_handshake") /\ ~InReconnect(t)]_vars

\* C39 witness: a worker's poll cycle found the client disconnected and is
\* about to return, nothing sent.
C39_Witness ==
    \E t \in Workers :
        /\ At(t, "poll_return") /\ lock = t
        /\ ~state.connected /\ sock = None
        /\ sent[t] = <<>>

====
